---- MODULE Spec2Model ----
(***************************************************************************)
(* A model of huml-js: the HUML decoder (src/huml.js, class Parser) and    *)
(* the HUML encoder (src/unnamed/part_001, stringify).                     *)
(*                                                                         *)
(* Text is a sequence of one-character strings.  Offsets are the code's    *)
(* 0-based offsets: the character at offset p of d is d[p + 1].            *)
(* A throw is a result record with ok = FALSE that every caller hands on.  *)
(***************************************************************************)
EXTENDS Integers, Sequences, FiniteSets, TLC

VARIABLES
    pc,     \* what the last call was: "input", "parsed", "encoded", ...
    inp,    \* how the input of the run was drawn (family and parameters)
    data,   \* the text handed to parse()
    res,    \* what parse(data) did: a value, or the error it threw
    obj,    \* the value handed to stringify()
    enc,    \* what stringify(obj) did: a text, or the error it threw
    first   \* the value and the text of the first encode of a round trip

vars == <<pc, inp, data, res, obj, enc, first>>

\* ------------------------------------------------------------------ text

NL == "\n"
QUOTE == "\""
BSLASH == "\\"
\* What this.data[i] gives past the end of the text (undefined).
UNDEF == "undefined"
\* What peekChar gives outside the text ('\0').
NUL == "NUL"
\* A code unit the model's alphabet has no name for.
OTHERCHAR == "?"

\* this.data[i]
At(d, i) == IF i >= 0 /\ i < Len(d) THEN d[i + 1] ELSE UNDEF

\* String.prototype.substring(a, b) and slice(a, b) for 0 <= a, b.
substring(d, a, b) ==
    LET lo == IF a > Len(d) THEN Len(d) ELSE a
        hi == IF b > Len(d) THEN Len(d) ELSE b
    IN  IF lo >= hi THEN <<>> ELSE SubSeq(d, lo + 1, hi)

\* String.prototype.slice(a, b): a negative b counts from the end.
slice(d, a, b) ==
    LET e == IF b < 0 THEN (IF Len(d) + b < 0 THEN 0 ELSE Len(d) + b) ELSE b
    IN  substring(d, a, e)

\* String.prototype.indexOf(c, from) for from >= 0: -1 when there is none.
RECURSIVE indexOf(_, _, _)
indexOf(d, c, from) ==
    IF from >= Len(d) THEN -1
    ELSE IF d[from + 1] = c THEN from
    ELSE indexOf(d, c, from + 1)

\* String.prototype.lastIndexOf(c, from): a negative from is taken as 0, one
\* past the end as the end.
RECURSIVE lastIndexOf(_, _, _)
lastIndexOf(d, c, from) ==
    IF Len(d) = 0 THEN -1
    ELSE IF from < 0 THEN lastIndexOf(d, c, 0)
    ELSE IF from >= Len(d) THEN lastIndexOf(d, c, Len(d) - 1)
    ELSE IF d[from + 1] = c THEN from
    ELSE IF from = 0 THEN -1
    ELSE lastIndexOf(d, c, from - 1)

includes(d, c) == \E i \in 1..Len(d) : d[i] = c

\* Whether s occurs in d as a substring.
includesStr(d, s) ==
    \E i \in 0..(Len(d) - Len(s)) : SubSeq(d, i + 1, i + Len(s)) = s

IsWhitespace(c) == c \in {" ", "\t", "\r", NL}

RECURSIVE trimStart(_)
trimStart(s) ==
    IF s # <<>> /\ IsWhitespace(Head(s)) THEN trimStart(Tail(s)) ELSE s

RECURSIVE trimEnd(_)
trimEnd(s) ==
    IF s # <<>> /\ IsWhitespace(s[Len(s)])
    THEN trimEnd(SubSeq(s, 1, Len(s) - 1)) ELSE s

\* String.prototype.trim()
trim(s) == trimEnd(trimStart(s))

\* ' '.repeat(n) for n >= 0
RECURSIVE spaces(_)
spaces(n) == IF n <= 0 THEN <<>> ELSE <<" ">> \o spaces(n - 1)

\* The number of newlines among the first n characters of a text: this.line
\* is one more when this.pos is n and every newline consumed was counted.
RECURSIVE NewlinesBefore(_, _)
NewlinesBefore(text, n) ==
    IF n <= 0 THEN 0
    ELSE NewlinesBefore(text, n - 1) + (IF n <= Len(text) /\ text[n] = NL THEN 1 ELSE 0)

\* String.prototype.split('\n')
RECURSIVE splitNL(_)
splitNL(s) ==
    LET i == indexOf(s, NL, 0)
    IN  IF i = -1 THEN <<s>>
        ELSE <<substring(s, 0, i)>> \o splitNL(substring(s, i + 1, Len(s)))

\* Array.prototype.join('\n')
RECURSIVE joinNL(_)
joinNL(ls) ==
    IF ls = <<>> THEN <<>>
    ELSE IF Len(ls) = 1 THEN ls[1]
    ELSE ls[1] \o <<NL>> \o joinNL(Tail(ls))

Digits == <<"0", "1", "2", "3", "4", "5", "6", "7", "8", "9">>
HexLower == <<"a", "b", "c", "d", "e", "f">>
HexUpper == <<"A", "B", "C", "D", "E", "F">>
Lower == <<"a", "b", "c", "d", "e", "f", "g", "h", "i", "j", "k", "l", "m",
           "n", "o", "p", "q", "r", "s", "t", "u", "v", "w", "x", "y", "z">>
Upper == <<"A", "B", "C", "D", "E", "F", "G", "H", "I", "J", "K", "L", "M",
           "N", "O", "P", "Q", "R", "S", "T", "U", "V", "W", "X", "Y", "Z">>

InSeq(seq, c) == \E i \in 1..Len(seq) : seq[i] = c
IndexIn(seq, c) == CHOOSE i \in 1..Len(seq) : seq[i] = c

isDigit(c) == InSeq(Digits, c)
isAlpha(c) == InSeq(Lower, c) \/ InSeq(Upper, c)
isAlphaNum(c) == isAlpha(c) \/ isDigit(c)
isHex(c) == isDigit(c) \/ InSeq(HexLower, c) \/ InSeq(HexUpper, c)

\* The value of one digit in a base up to 16.
DigitVal(c) ==
    IF isDigit(c) THEN IndexIn(Digits, c) - 1
    ELSE IF InSeq(HexLower, c)
         THEN IndexIn(HexLower, c) + 9
         ELSE IndexIn(HexUpper, c) + 9

isSpaceString(s) == trim(s) = <<>>

\* ---------------------------------------------------------------- values

NullV == [t |-> "null", v |-> 0]
BoolV(b) == [t |-> "bool", v |-> b]
NumV(n) == [t |-> "num", v |-> n]
NanV == [t |-> "nan", v |-> 0]
\* Infinity (s = 1) and -Infinity (s = -1)
InfV(s) == [t |-> "inf", v |-> s]
\* A number read by parseFloat, kept as the text it was read from.
FloatV(s) == [t |-> "float", v |-> s]
StrV(s) == [t |-> "str", v |-> s]
ListV(items) == [t |-> "list", v |-> items]
\* An object: its own properties, in insertion order.
DictV(ents) == [t |-> "dict", v |-> ents]
Ent(k, v) == [k |-> k, v |-> v]

\* --------------------------------------------------------------- results

\* A call that returned: the cursor after it (this.pos, this.line) and its value.
Ok(p, ln, val) ==
    [ok |-> TRUE, pos |-> p, line |-> ln, val |-> val, msg |-> "", ename |-> ""]

\* throw this.error(msg): a ParseError with name 'HUMLError' and line this.line.
error(p, ln, msg) ==
    [ok |-> FALSE, pos |-> p, line |-> ln, val |-> NullV, msg |-> msg,
     ename |-> "HUMLError"]

\* throw new Error(msg): a plain Error, which has no line property.
plainError(p, msg) ==
    [ok |-> FALSE, pos |-> p, line |-> 0, val |-> NullV, msg |-> msg,
     ename |-> "Error"]

\* The result r with val for its value.
withValue(r, val) == IF ~r.ok THEN r ELSE Ok(r.pos, r.line, val)

\* --------------------------------------------------------------- scanner

done(d, p) == p >= Len(d)

peekChar(d, p) == IF p >= 0 /\ p < Len(d) THEN d[p + 1] ELSE NUL

peekString(d, p, s) ==
    p + Len(s) <= Len(d) /\ SubSeq(d, p + 1, p + Len(s)) = s

RECURSIVE skipSpaces(_, _)
skipSpaces(d, p) ==
    IF ~done(d, p) /\ At(d, p) = " " THEN skipSpaces(d, p + 1) ELSE p

lineStart(d, p) ==
    IF p > 0 /\ p <= Len(d) /\ At(d, p - 1) = NL THEN p
    ELSE lastIndexOf(d, NL, p - 1) + 1

RECURSIVE countIndent(_, _, _)
countIndent(d, ls, indent) ==
    IF ls + indent < Len(d) /\ At(d, ls + indent) = " "
    THEN countIndent(d, ls, indent + 1) ELSE indent

getCurIndent(d, p) == countIndent(d, lineStart(d, p), 0)

\* remLine.endsWith(' ') && remLine.length > 0
endsWithSpace(remLine) == remLine # <<>> /\ remLine[Len(remLine)] = " "

\* The end of consumeLine: the trailing-space check of the rest of the line,
\* then the move to the next line; nextNewline is data.indexOf('\n', pos).
consumeLineRest(d, p, ln, nextNewline) ==
    IF endsWithSpace(slice(d, p, nextNewline))
    THEN error(p, ln, "trailing spaces are not allowed")
    ELSE IF nextNewline # -1
    THEN Ok(nextNewline + 1, ln + 1, NullV)
    ELSE Ok(Len(d), ln, NullV)

\* The first checks of consumeLine; q is the cursor after skipSpaces.  The
\* cursor returned is the one the rest of the line is read from.
consumeLineStart(d, contentStart, q, ln) ==
    IF done(d, q) \/ At(d, q) = NL
    THEN IF q > contentStart
         THEN error(q, ln, "trailing spaces are not allowed")
         ELSE Ok(q, ln, NullV)
    ELSE IF At(d, q) = "#"
    THEN IF q = contentStart /\ getCurIndent(d, q) # q - lineStart(d, q)
         THEN error(q, ln, "a value must be separated from an inline comment by a space")
         ELSE IF ~done(d, q + 1) /\ At(d, q + 1) \notin {" ", NL}
         THEN error(q + 1, ln, "comment hash '#' must be followed by a space")
         ELSE Ok(q + 1, ln, NullV)
    ELSE error(q, ln, "unexpected content at end of line")

\* c is what the first checks of consumeLine gave.
consumeLineEnd(d, c) ==
    IF ~c.ok THEN c ELSE consumeLineRest(d, c.pos, c.line, indexOf(d, NL, c.pos))

consumeLine(d, p, ln) ==
    consumeLineEnd(d, consumeLineStart(d, p, skipSpaces(d, p), ln))

\* consumeLineContent, with nextNewline = data.indexOf('\n', pos).
lineContent(d, p, ln, nextNewline) ==
    IF nextNewline = -1
    THEN Ok(Len(d), ln, substring(d, p, Len(d)))
    ELSE Ok(nextNewline + 1, ln + 1, substring(d, p, nextNewline))

\* Returns the cursor after the line; val is the line's content.
consumeLineContent(d, p, ln) == lineContent(d, p, ln, indexOf(d, NL, p))

RECURSIVE skipBlankLines(_, _, _)

\* The next round of the loop of skipBlankLines; c is the round's consumeLine.
blankLineNext(d, c) == IF ~c.ok THEN c ELSE skipBlankLines(d, c.pos, c.line)

\* One round of the loop of skipBlankLines; q is the cursor after skipSpaces.
blankLine(d, lineStartPos, q, ln) ==
    IF done(d, q)
    THEN IF q > lineStartPos
         THEN error(q, ln, "trailing spaces are not allowed")
         ELSE Ok(q, ln, NullV)
    ELSE IF At(d, q) \notin {NL, "#"}
    THEN Ok(q, ln, NullV)
    ELSE IF At(d, q) = NL /\ q > lineStartPos
    THEN error(q, ln, "trailing spaces are not allowed")
    ELSE blankLineNext(d, consumeLine(d, lineStartPos, ln))

skipBlankLines(d, p, ln) ==
    IF done(d, p) THEN Ok(p, ln, NullV) ELSE blankLine(d, p, skipSpaces(d, p), ln)

assertSpace(d, p, ln) ==
    IF done(d, p) \/ At(d, p) # " "
    THEN error(p, ln, "expected single space")
    ELSE IF ~done(d, p + 1) /\ At(d, p + 1) = " "
    THEN error(p + 1, ln, "expected single space, found multiple")
    ELSE Ok(p + 1, ln, NullV)

\* expectComma; q is the cursor after skipSpaces.
commaAt(d, q, ln) ==
    IF done(d, q) \/ At(d, q) # ","
    THEN error(q, ln, "expected a comma in inline collection")
    ELSE IF q > 0 /\ At(d, q - 1) = " "
    THEN error(q, ln, "no spaces allowed before comma")
    ELSE assertSpace(d, q + 1, ln)

expectComma(d, p, ln) == commaAt(d, skipSpaces(d, p), ln)

\* ------------------------------------------------------- number literals

\* The longest prefix of s made of digits of the base.
RECURSIVE digitPrefix(_, _)
digitPrefix(s, base) ==
    IF s # <<>> /\ isHex(Head(s)) /\ DigitVal(Head(s)) < base
    THEN <<Head(s)>> \o digitPrefix(Tail(s), base)
    ELSE <<>>

RECURSIVE digitsValue(_, _, _)
digitsValue(s, base, acc) ==
    IF s = <<>> THEN acc
    ELSE digitsValue(Tail(s), base, acc * base + DigitVal(Head(s)))

\* parseInt on the digits it reads: NaN when there are none.
parseIntDigits(ds, base, sign) ==
    IF ds = <<>> THEN [nan |-> TRUE, n |-> 0]
    ELSE [nan |-> FALSE, n |-> sign * digitsValue(ds, base, 0)]

\* parseInt after the sign: for base 16 an optional 0x, then the digits.
parseIntUnsigned(t, base, sign) ==
    parseIntDigits(
        digitPrefix(IF base = 16 /\ Len(t) >= 2 /\ t[1] = "0" /\ t[2] \in {"x", "X"}
                    THEN Tail(Tail(t)) ELSE t, base),
        base, sign)

\* parseInt after the leading white space: an optional sign.
parseIntSigned(t, base) ==
    parseIntUnsigned(IF t # <<>> /\ Head(t) \in {"+", "-"} THEN Tail(t) ELSE t, base,
                     IF t # <<>> /\ Head(t) = "-" THEN -1 ELSE 1)

\* The global parseInt(s, base): leading white space, a sign, for base 16 an
\* optional 0x, then the longest run of digits; NaN when that run is empty.
parseInt(s, base) == parseIntSigned(trimStart(s), base)

\* numStr.replace(/_/g, '')
RECURSIVE stripUnderscores(_)
stripUnderscores(s) ==
    IF s = <<>> THEN <<>>
    ELSE IF Head(s) = "_" THEN stripUnderscores(Tail(s))
    ELSE <<Head(s)>> \o stripUnderscores(Tail(s))

\* sign * r for what parseInt gave, as a Value (NaN is a number too).
IntValue(sign, r) == IF r.nan THEN NanV ELSE NumV(sign * r.n)

RECURSIVE parseBaseDigits(_, _, _)
parseBaseDigits(d, p, base) ==
    IF ~done(d, p) /\
       (CASE base = 16 -> isHex(At(d, p))
          [] base = 8 -> InSeq(SubSeq(Digits, 1, 8), At(d, p))
          [] OTHER -> At(d, p) \in {"0", "1"})
    THEN parseBaseDigits(d, p + 1, base) ELSE p

\* parseBase after its loop; q is the cursor after the digits.
parseBaseValue(d, q, ln, start, base, numStart) ==
    IF q = numStart
    THEN error(q, ln, "invalid number literal, requires digits after prefix")
    ELSE Ok(q, ln, IntValue(IF At(d, start) = "-" THEN -1 ELSE 1,
                            parseInt(stripUnderscores(substring(d, numStart, q)), base)))

parseBase(d, p, ln, start, base, prefix) ==
    parseBaseValue(d, parseBaseDigits(d, p + Len(prefix), base), ln, start, base,
                   p + Len(prefix))

\* The decimal loop of parseNumber: the cursor after the literal, and whether
\* a '.' or an exponent was seen.
RECURSIVE parseDecimal(_, _, _)
parseDecimal(d, p, isFloat) ==
    IF done(d, p) THEN [pos |-> p, isFloat |-> isFloat]
    ELSE IF isDigit(At(d, p)) \/ At(d, p) = "_" THEN parseDecimal(d, p + 1, isFloat)
    ELSE IF At(d, p) = "."
         \/ (At(d, p) \in {"e", "E"} /\ peekChar(d, p + 1) \notin {"+", "-"})
    THEN parseDecimal(d, p + 1, TRUE)
    ELSE IF At(d, p) \in {"e", "E"} THEN parseDecimal(d, p + 2, TRUE)
    ELSE [pos |-> p, isFloat |-> isFloat]

NUMBER_BASE_PREFIXES ==
    << [prefix |-> <<"0", "x">>, base |-> 16],
       [prefix |-> <<"0", "o">>, base |-> 8],
       [prefix |-> <<"0", "b">>, base |-> 2] >>

\* The NUMBER_BASE_PREFIXES loop of parseNumber, from entry i on: the entry
\* whose prefix the text at the cursor starts with, or 0.
RECURSIVE basePrefix(_, _, _)
basePrefix(d, p, i) ==
    IF i > Len(NUMBER_BASE_PREFIXES) THEN 0
    ELSE IF peekString(d, p, NUMBER_BASE_PREFIXES[i].prefix) THEN i
    ELSE basePrefix(d, p, i + 1)

\* The end of parseNumber; dec is what the decimal loop gave.
decimalValue(ln, dec, numStr) ==
    IF dec.isFloat THEN Ok(dec.pos, ln, FloatV(numStr))
    ELSE Ok(dec.pos, ln, IntValue(1, parseInt(numStr, 10)))

\* The decimal branch of parseNumber; q is the cursor after the sign.
parseDecimalNumber(d, ln, start, dec) ==
    decimalValue(ln, dec, stripUnderscores(substring(d, start, dec.pos)))

\* parseNumber after the sign; hit is the entry of NUMBER_BASE_PREFIXES found.
parseNumberAt(d, q, ln, start, hit) ==
    IF hit # 0
    THEN parseBase(d, q, ln, start, NUMBER_BASE_PREFIXES[hit].base,
                   NUMBER_BASE_PREFIXES[hit].prefix)
    ELSE parseDecimalNumber(d, ln, start, parseDecimal(d, q, FALSE))

\* parseNumber; q is the cursor after the sign.
parseUnsigned(d, q, ln, start) == parseNumberAt(d, q, ln, start, basePrefix(d, q, 1))

parseNumber(d, p, ln) ==
    parseUnsigned(d, IF peekChar(d, p) \in {"+", "-"} THEN p + 1 ELSE p, ln, p)

\* ------------------------------------------------------- string literals

TAB == "\t"
CR == "\r"
FF == "\f"
\* The backspace character, which TLA+ strings cannot spell.
BS == "<BS>"

ESCAPE_MAP ==
    << <<QUOTE, QUOTE>>, <<BSLASH, BSLASH>>, <<"/", "/">>, <<"n", NL>>,
       <<"t", TAB>>, <<"r", CR>>, <<"b", BS>>, <<"f", FF>> >>

hasEscape(c) == \E i \in 1..Len(ESCAPE_MAP) : ESCAPE_MAP[i][1] = c
escapeOf(c) == ESCAPE_MAP[CHOOSE i \in 1..Len(ESCAPE_MAP) : ESCAPE_MAP[i][1] = c][2]

\* String.fromCharCode(code): the code is taken modulo 2^16; the code units
\* the model names are the ASCII letters, digits and a few marks.
charOfCode(c) ==
    CASE c = 10 -> NL
      [] c = 9 -> TAB
      [] c = 13 -> CR
      [] c = 32 -> " "
      [] c = 34 -> QUOTE
      [] c = 92 -> BSLASH
      [] c >= 48 /\ c <= 57 -> Digits[c - 47]
      [] c >= 65 /\ c <= 90 -> Upper[c - 64]
      [] c >= 97 /\ c <= 122 -> Lower[c - 96]
      [] OTHER -> OTHERCHAR

fromCharCode(code) == charOfCode(code % 65536)

RECURSIVE parseStringLoop(_, _, _, _)

\* A \u escape; the cursor is on the 'u' and code is parseInt(hex, 16).
unicodeEscape(d, p, ln, result, code) ==
    IF code.nan
    THEN error(p, ln, "invalid unicode escape sequence")
    ELSE parseStringLoop(d, p + 5, ln, Append(result, fromCharCode(code.n)))

\* An escape sequence; the cursor is on the character after the backslash.
parseEscape(d, p, ln, result) ==
    IF done(d, p)
    THEN error(p, ln, "incomplete escape sequence")
    ELSE IF hasEscape(At(d, p))
    THEN parseStringLoop(d, p + 1, ln, Append(result, escapeOf(At(d, p))))
    ELSE IF At(d, p) = "u"
    THEN IF p + 4 >= Len(d)
         THEN error(p, ln, "incomplete unicode escape sequence")
         ELSE unicodeEscape(d, p, ln, result, parseInt(substring(d, p + 1, p + 5), 16))
    ELSE error(p, ln, "invalid escape character")

parseStringLoop(d, p, ln, result) ==
    IF done(d, p) THEN error(p, ln, "unclosed string")
    ELSE IF At(d, p) = QUOTE THEN Ok(p + 1, ln, result)
    ELSE IF At(d, p) = NL
    THEN error(p, ln, "newlines not allowed in single-line strings")
    ELSE IF At(d, p) = BSLASH THEN parseEscape(d, p + 1, ln, result)
    ELSE parseStringLoop(d, p + 1, ln, Append(result, At(d, p)))

\* Called with the cursor on the opening quote; val is the string's text.
parseString(d, p, ln) == parseStringLoop(d, p + 1, ln, <<>>)

\* The processLine of parseMultilineString.
processLine(content, keyIndent, preserveSpaces) ==
    IF preserveSpaces
    THEN IF Len(content) >= keyIndent + 2
            /\ isSpaceString(substring(content, 0, keyIndent + 2))
         THEN substring(content, keyIndent + 2, Len(content))
         ELSE content
    ELSE trim(content)

RECURSIVE parseMultilineStringLoop(_, _, _, _, _, _, _)

\* A content line; lc is its consumeLineContent.
multilineStringLine(d, keyIndent, preserveSpaces, delim, lines, lc) ==
    parseMultilineStringLoop(d, lc.pos, lc.line, keyIndent, preserveSpaces, delim,
        Append(lines, processLine(lc.val, keyIndent, preserveSpaces)))

\* The round without the comparison of the closing delimiter's indent with
\* keyIndent.
multilineStringRoundAnyIndent(d, lineStartPos, q, ln, keyIndent, preserveSpaces, delim, lines) ==
    IF peekString(d, q, delim)
    THEN withValue(consumeLine(d, q + 3, ln), joinNL(lines))
    ELSE multilineStringLine(d, keyIndent, preserveSpaces, delim, lines,
             consumeLineContent(d, lineStartPos, ln))

\* One round of the loop of parseMultilineString; q is the cursor after the
\* line's indentation.
multilineStringRound(d, lineStartPos, q, ln, keyIndent, preserveSpaces, delim, lines) ==
    IF peekString(d, q, delim)
    THEN IF q - lineStartPos # keyIndent
         THEN error(q, ln, "multiline closing delimiter must be at same indentation as the key")
         ELSE withValue(consumeLine(d, q + 3, ln), joinNL(lines))
    ELSE multilineStringLine(d, keyIndent, preserveSpaces, delim, lines,
             consumeLineContent(d, lineStartPos, ln))

parseMultilineStringLoop(d, p, ln, keyIndent, preserveSpaces, delim, lines) ==
    IF done(d, p) THEN error(p, ln, "unclosed multiline string")
    ELSE multilineStringRound(d, p, skipSpaces(d, p), ln, keyIndent, preserveSpaces,
                              delim, lines)

\* parseMultilineString after the consumeLine c of the opening delimiter's line.
multilineStringBody(d, keyIndent, preserveSpaces, delim, c) ==
    IF ~c.ok THEN c
    ELSE parseMultilineStringLoop(d, c.pos, c.line, keyIndent, preserveSpaces,
                                  delim, <<>>)

\* Called with the cursor on the opening delimiter; val is the string's text.
parseMultilineString(d, p, ln, keyIndent, preserveSpaces) ==
    multilineStringBody(d, keyIndent, preserveSpaces, substring(d, p, p + 3),
                        consumeLine(d, p + 3, ln))

\* ---------------------------------------------------------------- scalars

SPECIAL_VALUES ==
    << [str |-> <<"t", "r", "u", "e">>, value |-> BoolV(TRUE)],
       [str |-> <<"f", "a", "l", "s", "e">>, value |-> BoolV(FALSE)],
       [str |-> <<"n", "u", "l", "l">>, value |-> NullV],
       [str |-> <<"n", "a", "n">>, value |-> NanV],
       [str |-> <<"i", "n", "f">>, value |-> InfV(1)] >>

TripleQuote == <<QUOTE, QUOTE, QUOTE>>
\* The backtick, which TLA+ strings cannot spell.
TICK == "<tick>"
TripleTick == <<TICK, TICK, TICK>>
INF == <<"i", "n", "f">>

\* The string a string parser returned, as a Value.
stringValue(r) == IF ~r.ok THEN r ELSE Ok(r.pos, r.line, StrV(r.val))

\* The SPECIAL_VALUES loop of parseValue, from entry i on: the entry that the
\* text at the cursor starts with, or 0.
RECURSIVE specialValue(_, _, _)
specialValue(d, p, i) ==
    IF i > Len(SPECIAL_VALUES) THEN 0
    ELSE IF peekString(d, p, SPECIAL_VALUES[i].str) THEN i
    ELSE specialValue(d, p, i + 1)

\* The rest of parseValue, from the SPECIAL_VALUES loop on; hit is the entry
\* the loop stopped at.  A sign is followed by 'inf' or by a digit.
parseLiteral(d, p, ln, c, hit) ==
    IF hit # 0
    THEN Ok(p + Len(SPECIAL_VALUES[hit].str), ln, SPECIAL_VALUES[hit].value)
    ELSE IF c \in {"+", "-"} /\ peekString(d, p + 1, INF)
    THEN Ok(p + 4, ln, InfV(IF c = "-" THEN -1 ELSE 1))
    ELSE IF c \in {"+", "-"} /\ ~isDigit(peekChar(d, p + 1))
    THEN error(p + 1, ln, "invalid character after sign")
    ELSE IF c \in {"+", "-"} \/ isDigit(c) THEN parseNumber(d, p, ln)
    ELSE error(p, ln, "unexpected character when parsing value")

\* The string branches of parseValue: """ and ``` open a multiline string.
parseQuoted(d, p, ln, keyIndent) ==
    IF peekString(d, p, TripleQuote) \/ peekString(d, p, TripleTick)
    THEN parseMultilineString(d, p, ln, keyIndent, At(d, p) = TICK)
    ELSE parseString(d, p, ln)

parseValue(d, p, ln, keyIndent) ==
    IF done(d, p)
    THEN error(p, ln, "unexpected end of input, expected a value")
    ELSE IF At(d, p) = QUOTE \/ (At(d, p) = TICK /\ peekString(d, p, TripleTick))
    THEN stringValue(parseQuoted(d, p, ln, keyIndent))
    ELSE parseLiteral(d, p, ln, At(d, p), specialValue(d, p, 1))

\* ------------------------------------------------------------------- keys

RECURSIVE bareKeyEnd(_, _)
bareKeyEnd(d, p) ==
    IF ~done(d, p) /\ (isAlphaNum(At(d, p)) \/ At(d, p) = "-" \/ At(d, p) = "_")
    THEN bareKeyEnd(d, p + 1) ELSE p

\* A bare key from offset q to offset e.
parseBareKey(d, q, e, ln) ==
    IF e = q THEN error(q, ln, "expected a key") ELSE Ok(e, ln, substring(d, q, e))

\* parseKey; q is the cursor after skipSpaces.
parseKeyAt(d, q, ln) ==
    IF peekChar(d, q) = QUOTE THEN parseString(d, q, ln)
    ELSE parseBareKey(d, q, bareKeyEnd(d, q), ln)

\* val is the key's text.
parseKey(d, p, ln) == parseKeyAt(d, skipSpaces(d, p), ln)

\* val is the indicator: ":" or "::".
parseIndicator(d, p, ln) ==
    IF done(d, p) \/ At(d, p) # ":"
    THEN error(p, ln, "expected ':' or '::' after key")
    ELSE IF ~done(d, p + 1) /\ At(d, p + 1) = ":"
    THEN Ok(p + 2, ln, "::")
    ELSE Ok(p + 1, ln, ":")

isKeyStart(d, p) == ~done(d, p) /\ (At(d, p) = QUOTE \/ isAlpha(At(d, p)))

\* -------------------------------------------------------------- lookahead

\* Whether a ':' follows the key k that parseKey read.
colonAfter(d, k) == k.ok /\ ~done(d, k.pos) /\ At(d, k.pos) = ":"

\* The cursor is put back in the finally block: the call returns a boolean and
\* leaves pos and line as they were.
hasKeyValuePair(d, p, ln) == colonAfter(d, parseKey(d, p, ln))

\* Array.prototype.some stops only at a callback that returns true: the
\* callback's "return false" at a line break or '#' goes on to the next
\* character.
hasInlineDict(d, p) ==
    \E actualPos \in p..(Len(d) - 1) :
        /\ At(d, actualPos) \notin {NL, "#"}
        /\ At(d, actualPos) = ":"
        /\ (actualPos + 1 >= Len(d) \/ At(d, actualPos + 1) # ":")

\* The part of a line before its comment; commentIdx is line.indexOf('#').
beforeComment(line, commentIdx) ==
    IF commentIdx >= 0 THEN slice(line, 0, commentIdx) ELSE line

\* The test of hasInlineListAtRoot on the line's content.
commaNoColon(content) == includes(content, ",") /\ ~includes(content, ":")

\* hasInlineListAtRoot on the line the cursor is on.
inlineListLine(line) == commaNoColon(beforeComment(line, indexOf(line, "#", 0)))

hasInlineListAtRoot(d, p) == inlineListLine(slice(d, p, indexOf(d, NL, p)))

\* Whether a line after the first one holds content: neither blank nor a comment.
RECURSIVE hasContent(_, _)
hasContent(rest, i) ==
    IF i > Len(rest) THEN FALSE
    ELSE IF trim(rest[i]) # <<>> /\ Head(trim(rest[i])) # "#" THEN TRUE
    ELSE hasContent(rest, i + 1)

\* The test of hasInlineDictAtRoot on the line's content before its comment.
colonAndComma(line) ==
    includes(line, ":") /\ ~includesStr(line, <<":", ":">>) /\ includes(line, ",")

\* hasInlineDictAtRoot; lineEnd and commentEnd are the offsets of the line's
\* end and of the first '#' from the cursor on, the text's length for none.
inlineDictLine(d, p, lineEnd, commentEnd) ==
    IF ~colonAndComma(slice(d, p, IF lineEnd < commentEnd THEN lineEnd ELSE commentEnd))
    THEN FALSE
    ELSE ~hasContent(splitNL(slice(d, lineEnd, Len(d))), 2)

\* An offset indexOf gave, the text's length for -1.
orEnd(d, i) == IF i = -1 THEN Len(d) ELSE i

hasInlineDictAtRoot(d, p) ==
    inlineDictLine(d, p, orEnd(d, indexOf(d, NL, p)), orEnd(d, indexOf(d, "#", p)))

\* The parser after a call of a lookahead predicate: what it answered, and
\* this.pos and this.line as the call left them.
Looked(name, answer, p, ln) ==
    [ok |-> TRUE, pos |-> p, line |-> ln, val |-> BoolV(answer), msg |-> name,
     ename |-> ""]

\* The call without its finally block: pos stays where parseKey left it.
keyValuePairCallNoRestore(d, savedPos, k) ==
    Looked("hasKeyValuePair", colonAfter(d, k), k.pos, k.line)

\* hasKeyValuePair as a call; k is what parseKey did from savedPos, a key or
\* the error the catch swallows.  finally assigns savedPos to this.pos;
\* this.line is not assigned.
keyValuePairCall(d, savedPos, k) ==
    Looked("hasKeyValuePair", colonAfter(d, k), savedPos, k.line)

\* The other three predicates read this.data and assign neither field.
inlineDictCall(d, p, ln) == Looked("hasInlineDict", hasInlineDict(d, p), p, ln)
inlineListAtRootCall(d, p, ln) ==
    Looked("hasInlineListAtRoot", hasInlineListAtRoot(d, p), p, ln)
inlineDictAtRootCall(d, p, ln) ==
    Looked("hasInlineDictAtRoot", hasInlineDictAtRoot(d, p), p, ln)

\* ------------------------------------------------------------ collections

TYPES ==
    [INLINE_DICT |-> 1, MULTILINE_DICT |-> 2, EMPTY_LIST |-> 3, EMPTY_DICT |-> 4,
     MULTILINE_LIST |-> 5, INLINE_LIST |-> 6, SCALAR |-> 7]

\* The property names every object literal inherits from Object.prototype.
ObjectPrototypeKeys ==
    { <<"c", "o", "n", "s", "t", "r", "u", "c", "t", "o", "r">>,
      <<"t", "o", "S", "t", "r", "i", "n", "g">>,
      <<"v", "a", "l", "u", "e", "O", "f">>,
      <<"h", "a", "s", "O", "w", "n", "P", "r", "o", "p", "e", "r", "t", "y">>,
      <<"i", "s", "P", "r", "o", "t", "o", "t", "y", "p", "e", "O", "f">>,
      <<"p", "r", "o", "p", "e", "r", "t", "y", "I", "s", "E", "n", "u", "m", "e", "r", "a", "b", "l", "e">>,
      <<"t", "o", "L", "o", "c", "a", "l", "e", "S", "t", "r", "i", "n", "g">>,
      <<"_", "_", "p", "r", "o", "t", "o", "_", "_">>,
      <<"_", "_", "d", "e", "f", "i", "n", "e", "G", "e", "t", "t", "e", "r", "_", "_">>,
      <<"_", "_", "d", "e", "f", "i", "n", "e", "S", "e", "t", "t", "e", "r", "_", "_">>,
      <<"_", "_", "l", "o", "o", "k", "u", "p", "G", "e", "t", "t", "e", "r", "_", "_">>,
      <<"_", "_", "l", "o", "o", "k", "u", "p", "S", "e", "t", "t", "e", "r", "_", "_">> }

PROTO == <<"_", "_", "p", "r", "o", "t", "o", "_", "_">>

ownKeys(ents) == {ents[i].k : i \in 1..Len(ents)}

\* key in out: an own property, or one inherited from Object.prototype.
keyIn(key, ents) == key \in ownKeys(ents) \/ key \in ObjectPrototypeKeys

\* out[key] = val on an object literal: a new own property goes last, an
\* existing one keeps its place and takes the value, and '__proto__' is the
\* inherited setter, which adds no own property.
setProp(ents, key, val) ==
    IF key = PROTO THEN ents
    ELSE IF key \in ownKeys(ents)
    THEN [i \in 1..Len(ents) |-> IF ents[i].k = key THEN Ent(key, val) ELSE ents[i]]
    ELSE Append(ents, Ent(key, val))

\* this.consumeLine() after the value v was parsed: v's value, with the cursor
\* on the next line.
thenConsumeLine(d, v) ==
    IF ~v.ok THEN v ELSE withValue(consumeLine(d, v.pos, v.line), v.val)

RECURSIVE parseInlineLoop(_, _, _, _, _, _)

\* The end of one round of the loop of parseInlineVectorContents, the cursor
\* after the element's value: spaces are skipped only when a comma follows.
inlineAfterValue(d, p, ln, type, result) ==
    IF ~done(d, p) /\ At(d, p) = " "
    THEN IF skipSpaces(d, p + 1) < Len(d) /\ At(d, skipSpaces(d, p + 1)) = ","
         THEN parseInlineLoop(d, skipSpaces(d, p), ln, type, result, FALSE)
         ELSE Ok(p, ln, result)
    ELSE parseInlineLoop(d, p, ln, type, result, FALSE)

\* result[key] = v for a dict, result.push(v) for a list.
inlineStore(d, type, result, key, v) ==
    IF ~v.ok THEN v
    ELSE inlineAfterValue(d, v.pos, v.line, type,
             IF type = TYPES.INLINE_DICT THEN setProp(result, key, v.val)
             ELSE Append(result, v.val))

\* An element's value; sp holds the cursor the value starts at and, for a
\* dict, the element's key.
inlineValue(d, ln, type, result, sp) ==
    IF ~sp.ok THEN sp
    ELSE inlineStore(d, type, result, sp.val, parseValue(d, sp.pos, ln, 0))

\* An inline dict's element after its parseKey k: the ':' and the space; val
\* is the key.
inlineDictKey(d, ln, k) ==
    IF ~k.ok THEN k
    ELSE IF done(d, k.pos) \/ At(d, k.pos) # ":"
    THEN error(k.pos, ln, "expected ':' in inline dict")
    ELSE withValue(assertSpace(d, k.pos + 1, ln), k.val)

\* One element of an inline collection; c is the expectComma before it.
inlineElement(d, ln, type, result, c) ==
    IF ~c.ok THEN c
    ELSE inlineValue(d, ln, type, result,
             IF type = TYPES.INLINE_DICT
             THEN inlineDictKey(d, ln, parseKey(d, c.pos, ln))
             ELSE Ok(c.pos, ln, <<>>))

\* The loop of parseInlineVectorContents; result is the entries or the items.
parseInlineLoop(d, p, ln, type, result, isFirst) ==
    IF done(d, p) \/ At(d, p) = NL \/ At(d, p) = "#"
    THEN Ok(p, ln, result)
    ELSE inlineElement(d, ln, type, result,
             IF isFirst THEN Ok(p, ln, NullV) ELSE expectComma(d, p, ln))

\* The end of parseInlineVectorContents: r is what the loop gave.
inlineResult(d, type, r) ==
    IF ~r.ok THEN r
    ELSE withValue(consumeLine(d, r.pos, r.line),
             IF type = TYPES.INLINE_DICT THEN DictV(r.val) ELSE ListV(r.val))

parseInlineVectorContents(d, p, ln, type) ==
    inlineResult(d, type, parseInlineLoop(d, p, ln, type, <<>>, TRUE))

\* An empty collection marker, [] or {}, and the rest of its line.
parseEmptyVector(d, p, ln) ==
    withValue(consumeLine(d, p + 2, ln),
              IF peekString(d, p, <<"[", "]">>) THEN ListV(<<>>) ELSE DictV(<<>>))

parseInlineVector(d, p, ln) ==
    IF peekString(d, p, <<"[", "]">>) \/ peekString(d, p, <<"{", "}">>)
    THEN parseEmptyVector(d, p, ln)
    ELSE parseInlineVectorContents(d, p, ln,
             IF hasInlineDict(d, p) THEN TYPES.INLINE_DICT ELSE TYPES.INLINE_LIST)

\* getMultilineVectorType after its skipBlankLines b: val is "list" or "dict",
\* and the cursor is on the first element line's content.
vectorTypeAt(d, indent, b) ==
    IF ~b.ok THEN b
    ELSE IF done(d, b.pos)
    THEN error(b.pos, b.line, "ambiguous empty vector after '::'. Use [] or {}.")
    ELSE IF getCurIndent(d, b.pos) < indent
    THEN error(b.pos, b.line, "ambiguous empty vector after '::'. Use [] or {}.")
    ELSE Ok(b.pos, b.line, IF At(d, b.pos) = "-" THEN "list" ELSE "dict")

getMultilineVectorType(d, p, ln, indent) ==
    vectorTypeAt(d, indent, skipBlankLines(d, p, ln))

RECURSIVE parseMultilineDictLoop(_, _, _, _, _)
RECURSIVE parseMultilineListLoop(_, _, _, _, _)
RECURSIVE parseVector(_, _, _, _)

\* The end of a dict entry's scalar value v: a multiline string has consumed
\* its own last line.
dictScalarEnd(d, isMultiline, v) ==
    IF isMultiline THEN v ELSE thenConsumeLine(d, v)

\* A dict entry's scalar value; sp is the assertSpace after ':'.
dictScalarValue(d, curIndent, sp) ==
    IF ~sp.ok THEN sp
    ELSE dictScalarEnd(d,
             peekString(d, sp.pos, TripleTick) \/ peekString(d, sp.pos, TripleQuote),
             parseValue(d, sp.pos, sp.line, curIndent))

\* The value of one dict entry, after its indicator: val is the value and the
\* cursor is on the next line.
parseDictEntryValue(d, p, ln, indicator, curIndent) ==
    IF indicator = ":"
    THEN dictScalarValue(d, curIndent, assertSpace(d, p, ln))
    ELSE parseVector(d, p, ln, curIndent + 2)

\* out[key] = val, and the next round of the loop.
dictStore(d, indent, out, key, v) ==
    IF ~v.ok THEN v
    ELSE parseMultilineDictLoop(d, v.pos, v.line, indent, setProp(out, key, v.val))

\* A dict entry after its key; ind is the parseIndicator.
dictEntryValue(d, indent, out, key, ind) ==
    IF ~ind.ok THEN ind
    ELSE dictStore(d, indent, out, key,
             parseDictEntryValue(d, ind.pos, ind.line, ind.val, indent))

\* A dict entry after its parseKey k.
dictEntryKey(d, indent, out, k) ==
    IF ~k.ok THEN k
    ELSE IF keyIn(k.val, out) THEN error(k.pos, k.line, "duplicate key in dict")
    ELSE dictEntryValue(d, indent, out, k.val, parseIndicator(d, k.pos, k.line))

\* One round of the loop of parseMultilineDict, after its skipBlankLines:
\* the cursor is on a line's content.
dictEntry(d, p, ln, indent, out, curIndent) ==
    IF curIndent < indent THEN Ok(p, ln, DictV(out))
    ELSE IF curIndent # indent THEN error(p, ln, "bad indent")
    ELSE IF ~isKeyStart(d, p) THEN error(p, ln, "invalid character, expected key")
    ELSE dictEntryKey(d, indent, out, parseKey(d, p, ln))

\* b is the skipBlankLines of the round.
dictRound(d, indent, out, b) ==
    IF ~b.ok THEN b
    ELSE IF done(d, b.pos) THEN Ok(b.pos, b.line, DictV(out))
    ELSE dictEntry(d, b.pos, b.line, indent, out, getCurIndent(d, b.pos))

parseMultilineDictLoop(d, p, ln, indent, out) ==
    dictRound(d, indent, out, skipBlankLines(d, p, ln))

parseMultilineDict(d, p, ln, indent) == parseMultilineDictLoop(d, p, ln, indent, <<>>)

\* The value of one list item, after '- ': val is the value and the cursor is
\* on the next line.
parseListItemValue(d, p, ln, curIndent) ==
    IF peekString(d, p, <<":", ":">>)
    THEN parseVector(d, p + 2, ln, curIndent + 2)
    ELSE thenConsumeLine(d, parseValue(d, p, ln, curIndent))

\* out.push(val), and the next round of the loop.
listStore(d, indent, out, v) ==
    IF ~v.ok THEN v
    ELSE parseMultilineListLoop(d, v.pos, v.line, indent, Append(out, v.val))

\* A list item after its '-'; sp is the assertSpace.
listItem(d, indent, out, sp) ==
    IF ~sp.ok THEN sp
    ELSE listStore(d, indent, out, parseListItemValue(d, sp.pos, sp.line, indent))

\* One round of the loop of parseMultilineList, after its skipBlankLines:
\* the cursor is on a line's content.
listEntry(d, p, ln, indent, out, curIndent) ==
    IF curIndent < indent THEN Ok(p, ln, ListV(out))
    ELSE IF curIndent # indent THEN error(p, ln, "bad indent")
    ELSE IF At(d, p) # "-" THEN Ok(p, ln, ListV(out))
    ELSE listItem(d, indent, out, assertSpace(d, p + 1, ln))

\* b is the skipBlankLines of the round.
listRound(d, indent, out, b) ==
    IF ~b.ok THEN b
    ELSE IF done(d, b.pos) THEN Ok(b.pos, b.line, ListV(out))
    ELSE listEntry(d, b.pos, b.line, indent, out, getCurIndent(d, b.pos))

parseMultilineListLoop(d, p, ln, indent, out) ==
    listRound(d, indent, out, skipBlankLines(d, p, ln))

parseMultilineList(d, p, ln, indent) == parseMultilineListLoop(d, p, ln, indent, <<>>)

\* The indent the elements of a multiline vector are parsed at: read off the
\* first element line.
vectorIndent(d, p, indent) == getCurIndent(d, p)

\* A multiline vector's elements; vt is the getMultilineVectorType.
vectorElements(d, indent, vt) ==
    IF ~vt.ok THEN vt
    ELSE IF vt.val = "list"
    THEN parseMultilineList(d, vt.pos, vt.line, vectorIndent(d, vt.pos, indent))
    ELSE parseMultilineDict(d, vt.pos, vt.line, vectorIndent(d, vt.pos, indent))

\* A multiline vector; c is the consumeLine of the line of its '::'.
multilineVector(d, indent, c) ==
    IF ~c.ok THEN c
    ELSE vectorElements(d, indent, getMultilineVectorType(d, c.pos, c.line, indent))

\* An inline vector; sp is the assertSpace after '::'.
inlineVector(d, sp) ==
    IF ~sp.ok THEN sp ELSE parseInlineVector(d, sp.pos, sp.line)

parseVector(d, p, ln, indent) ==
    IF done(d, skipSpaces(d, p)) \/ At(d, skipSpaces(d, p)) \in {NL, "#"}
    THEN multilineVector(d, indent, consumeLine(d, p, ln))
    ELSE inlineVector(d, assertSpace(d, p, ln))

\* ------------------------------------------------------------------ loops

\* One round of a loop, begun with the cursor at from: again says the loop's
\* body ran to its end and the loop goes round again, with the cursor at
\* pos; otherwise the round left the loop by its condition, a break, a return
\* or a throw.  arg is what the loop was called with.
GoesRound(name, arg, from, r) ==
    [ok |-> TRUE, again |-> r.ok, pos |-> r.pos, line |-> r.line, from |-> from,
     val |-> r.val, msg |-> name, arg |-> arg, ename |-> ""]

Leaves(name, arg, from, ln) ==
    [ok |-> TRUE, again |-> FALSE, pos |-> from, line |-> ln, from |-> from,
     val |-> NullV, msg |-> name, arg |-> arg, ename |-> ""]

\* The round of skipBlankLines without its consumeLine: pos is put back on
\* lineStart and the loop goes round.
skipBlankLinesRoundNoConsume(d, lineStartPos, q, ln) ==
    IF done(d, lineStartPos) \/ done(d, q) \/ At(d, q) \notin {NL, "#"}
       \/ (At(d, q) = NL /\ q > lineStartPos)
    THEN Leaves("skipBlankLines", 0, lineStartPos, ln)
    ELSE GoesRound("skipBlankLines", 0, lineStartPos, Ok(lineStartPos, ln, NullV))

\* One round of the loop of skipBlankLines; q is the cursor after skipSpaces.
skipBlankLinesRound(d, lineStartPos, q, ln) ==
    IF done(d, lineStartPos) \/ done(d, q) \/ At(d, q) \notin {NL, "#"}
       \/ (At(d, q) = NL /\ q > lineStartPos)
    THEN Leaves("skipBlankLines", 0, lineStartPos, ln)
    ELSE GoesRound("skipBlankLines", 0, lineStartPos, consumeLine(d, lineStartPos, ln))

\* One round of the loop of parseMultilineString; q is the cursor after the
\* line's indentation.  A line with the closing delimiter returns or throws.
multilineStringLoopRound(d, lineStartPos, q, ln, delim) ==
    IF done(d, lineStartPos) \/ peekString(d, q, delim)
    THEN Leaves("parseMultilineString", delim, lineStartPos, ln)
    ELSE GoesRound("parseMultilineString", delim, lineStartPos,
                   consumeLineContent(d, lineStartPos, ln))

\* One round of the loop of parseMultilineDict, out being the entries so far:
\* v is the entry's value, ind the parseIndicator after the key, k the
\* parseKey, b the skipBlankLines.  val is out after the round.
dictRoundStore(from, indent, out, key, v) ==
    GoesRound("parseMultilineDict", indent, from,
              IF v.ok THEN withValue(v, setProp(out, key, v.val)) ELSE v)

dictRoundValue(d, from, indent, out, key, ind) ==
    IF ~ind.ok THEN Leaves("parseMultilineDict", indent, from, ind.line)
    ELSE dictRoundStore(from, indent, out, key,
             parseDictEntryValue(d, ind.pos, ind.line, ind.val, indent))

dictRoundKey(d, from, indent, out, k) ==
    IF ~k.ok \/ keyIn(k.val, out)
    THEN Leaves("parseMultilineDict", indent, from, k.line)
    ELSE dictRoundValue(d, from, indent, out, k.val, parseIndicator(d, k.pos, k.line))

parseMultilineDictRound(d, from, indent, out, b) ==
    IF ~b.ok \/ done(d, b.pos) \/ getCurIndent(d, b.pos) # indent \/ ~isKeyStart(d, b.pos)
    THEN Leaves("parseMultilineDict", indent, from, b.line)
    ELSE dictRoundKey(d, from, indent, out, parseKey(d, b.pos, b.line))

\* One round of the loop of parseMultilineList: sp is the assertSpace after
\* '-', b the skipBlankLines.
listRoundValue(d, from, indent, sp) ==
    IF ~sp.ok THEN Leaves("parseMultilineList", indent, from, sp.line)
    ELSE GoesRound("parseMultilineList", indent, from,
                   parseListItemValue(d, sp.pos, sp.line, indent))

parseMultilineListRound(d, from, indent, b) ==
    IF ~b.ok \/ done(d, b.pos) \/ getCurIndent(d, b.pos) # indent \/ At(d, b.pos) # "-"
    THEN Leaves("parseMultilineList", indent, from, b.line)
    ELSE listRoundValue(d, from, indent, assertSpace(d, b.pos + 1, b.line))

\* One round of the loop of parseInlineVectorContents: v is the element's
\* value, sp the cursor the value starts at, c the expectComma.
inlineRoundEnd(d, from, type, v) ==
    IF ~v.ok THEN Leaves("parseInlineVectorContents", type, from, v.line)
    ELSE IF ~done(d, v.pos) /\ At(d, v.pos) = " "
    THEN IF skipSpaces(d, v.pos + 1) < Len(d) /\ At(d, skipSpaces(d, v.pos + 1)) = ","
         THEN GoesRound("parseInlineVectorContents", type, from,
                        Ok(skipSpaces(d, v.pos), v.line, NullV))
         ELSE Leaves("parseInlineVectorContents", type, from, v.line)
    ELSE GoesRound("parseInlineVectorContents", type, from, v)

inlineRoundValue(d, from, ln, type, sp) ==
    IF ~sp.ok THEN Leaves("parseInlineVectorContents", type, from, ln)
    ELSE inlineRoundEnd(d, from, type, parseValue(d, sp.pos, ln, 0))

inlineRoundElement(d, from, ln, type, c) ==
    IF ~c.ok THEN Leaves("parseInlineVectorContents", type, from, ln)
    ELSE inlineRoundValue(d, from, ln, type,
             IF type = TYPES.INLINE_DICT
             THEN inlineDictKey(d, ln, parseKey(d, c.pos, ln))
             ELSE Ok(c.pos, ln, <<>>))

parseInlineRound(d, p, ln, type, isFirst) ==
    IF done(d, p) \/ At(d, p) = NL \/ At(d, p) = "#"
    THEN Leaves("parseInlineVectorContents", type, p, ln)
    ELSE inlineRoundElement(d, p, ln, type,
             IF isFirst THEN Ok(p, ln, NullV) ELSE expectComma(d, p, ln))

\* ------------------------------------------------------------------ parse

getRootType(d, p, ln) ==
    IF hasKeyValuePair(d, p, ln)
    THEN IF hasInlineDictAtRoot(d, p) THEN TYPES.INLINE_DICT ELSE TYPES.MULTILINE_DICT
    ELSE IF peekString(d, p, <<"[", "]">>) THEN TYPES.EMPTY_LIST
    ELSE IF peekString(d, p, <<"{", "}">>) THEN TYPES.EMPTY_DICT
    ELSE IF peekChar(d, p) = "-" THEN TYPES.MULTILINE_LIST
    ELSE IF hasInlineListAtRoot(d, p) THEN TYPES.INLINE_LIST
    ELSE TYPES.SCALAR

\* assertRootEnd after its skipBlankLines b; val is the root value.
rootEndAt(d, val, b) ==
    IF ~b.ok THEN b
    ELSE IF ~done(d, b.pos)
    THEN error(b.pos, b.line, "unexpected content after root value")
    ELSE Ok(b.pos, b.line, val)

\* r is the result of the root's handler.
assertRootEnd(d, r) ==
    IF ~r.ok THEN r ELSE rootEndAt(d, r.val, skipBlankLines(d, r.pos, r.line))

\* What a typeHandler does before its assertRootEnd.
rootValue(d, p, ln, rootType) ==
    CASE rootType \in {TYPES.INLINE_DICT, TYPES.INLINE_LIST} ->
            parseInlineVectorContents(d, p, ln, rootType)
      [] rootType \in {TYPES.EMPTY_LIST, TYPES.EMPTY_DICT} ->
            parseEmptyVector(d, p, ln)
      [] rootType = TYPES.SCALAR -> thenConsumeLine(d, parseValue(d, p, ln, 0))
      [] OTHER -> error(p, ln, "internal error: unknown document type")

\* The typeHandlers of Parser.parse: the handlers of a multiline root do not
\* call assertRootEnd.
parseRoot(d, p, ln, rootType) ==
    CASE rootType = TYPES.MULTILINE_DICT -> parseMultilineDict(d, p, ln, 0)
      [] rootType = TYPES.MULTILINE_LIST -> parseMultilineList(d, p, ln, 0)
      [] OTHER -> assertRootEnd(d, rootValue(d, p, ln, rootType))

HUML == <<"%", "H", "U", "M", "L">>
VERSION == <<"v", "0", ".", "1", ".", "0">>

RECURSIVE versionEnd(_, _)
versionEnd(d, p) ==
    IF ~done(d, p) /\ At(d, p) \notin {" ", NL, "#"} THEN versionEnd(d, p + 1) ELSE p

\* The optional version declaration: the cursor after its line.
parseVersion(d, ln) ==
    IF ~peekString(d, 0, HUML) THEN Ok(0, ln, NullV)
    ELSE IF ~done(d, 5) /\ At(d, 5) = " "
    THEN LET start == 6
             e == versionEnd(d, start)
         IN  IF e > start /\ substring(d, start, e) # VERSION
             THEN error(e, ln, "unsupported version")
             ELSE consumeLine(d, e, ln)
    ELSE consumeLine(d, 5, ln)

\* What the document's empty input throws.
emptyDocument(d) == plainError(0, "empty document is undefined")

\* Parser.parse after the version line and the blank lines; b is the
\* skipBlankLines.
parseDocument(d, b) ==
    IF ~b.ok THEN b
    ELSE IF done(d, b.pos) THEN error(b.pos, b.line, "empty doc is undefined")
    ELSE IF getCurIndent(d, b.pos) # 0
    THEN error(b.pos, b.line, "root element must not be indented")
    ELSE IF peekString(d, b.pos, <<":", ":">>)
    THEN error(b.pos, b.line, "'::' indicator not allowed at document root")
    ELSE IF peekString(d, b.pos, <<":">>) /\ ~hasKeyValuePair(d, b.pos, b.line)
    THEN error(b.pos, b.line, "':' indicator not allowed at document root")
    ELSE parseRoot(d, b.pos, b.line, getRootType(d, b.pos, b.line))

\* Parser.parse after the version line; ver is the parseVersion.
parseAfterVersion(d, ver) ==
    IF ~ver.ok THEN ver ELSE parseDocument(d, skipBlankLines(d, ver.pos, ver.line))

\* Parser.parse on new Parser(d): pos = 0, line = 1.
parserParse(d) ==
    IF Len(d) = 0 THEN emptyDocument(d) ELSE parseAfterVersion(d, parseVersion(d, 1))

\* The exported parse(data), for a data that is a string.
parse(d) == parserParse(d)

\* ---------------------------------------------------------------- encoder

\* The encoder's state: the lines array, and whether a call has thrown.
EncState(lines) == [lines |-> lines, err |-> ""]

\* lines[lines.length - 1] += text.  On an empty array this sets the property
\* "-1", which is no element of the array: join() never sees it.
appendLast(st, text) ==
    IF st.err # "" \/ Len(st.lines) = 0 THEN st
    ELSE [st EXCEPT !.lines[Len(st.lines)] = @ \o text]

\* lines.push(' '.repeat(n) + text): repeat throws a RangeError for n < 0.
pushIndented(st, n, text) ==
    IF st.err # "" THEN st
    ELSE IF n < 0 THEN [st EXCEPT !.err = "RangeError"]
    ELSE [st EXCEPT !.lines = Append(@, spaces(n) \o text)]

\* The decimal digits of n >= 0.
RECURSIVE natToString(_)
natToString(n) ==
    IF n < 10 THEN <<Digits[n + 1]>>
    ELSE natToString(n \div 10) \o <<Digits[(n % 10) + 1]>>

\* formatNumber: String(num) of an integer below 10^21 is its decimal digits;
\* the text of a number read by parseFloat stands for what String gives of it.
formatNumber(val) ==
    CASE val.t = "nan" -> <<"n", "a", "n">>
      [] val.t = "inf" -> IF val.v > 0 THEN INF ELSE <<"-">> \o INF
      [] val.t = "float" -> val.v
      [] OTHER -> IF val.v < 0 THEN <<"-">> \o natToString(0 - val.v)
                  ELSE natToString(val.v)

\* What JSON.stringify writes for one character of a string.
jsonEscape(c) ==
    CASE c = QUOTE -> <<BSLASH, QUOTE>>
      [] c = BSLASH -> <<BSLASH, BSLASH>>
      [] c = NL -> <<BSLASH, "n">>
      [] c = TAB -> <<BSLASH, "t">>
      [] c = CR -> <<BSLASH, "r">>
      [] c = BS -> <<BSLASH, "b">>
      [] c = FF -> <<BSLASH, "f">>
      [] OTHER -> <<c>>

RECURSIVE jsonEscapeAll(_)
jsonEscapeAll(str) ==
    IF str = <<>> THEN <<>> ELSE jsonEscape(Head(str)) \o jsonEscapeAll(Tail(str))

\* JSON.stringify(str)
jsonStringify(str) == <<QUOTE>> \o jsonEscapeAll(str) \o <<QUOTE>>

RECURSIVE pushContentLines(_, _, _)
pushContentLines(st, strLines, contentIndent) ==
    IF strLines = <<>> THEN st
    ELSE pushContentLines(pushIndented(st, contentIndent, Head(strLines)),
                          Tail(strLines), contentIndent)

\* strLines after the pop of an empty last line.
contentLines(strLines) ==
    IF strLines[Len(strLines)] = <<>> THEN SubSeq(strLines, 1, Len(strLines) - 1)
    ELSE strLines

\* The multi-line branch of toString: keyIndent is indent - 2 and
\* contentIndent is indent.
toMultilineString(str, indent, st) ==
    pushIndented(
        pushContentLines(appendLast(st, TripleTick), contentLines(splitNL(str)), indent),
        indent - 2, TripleTick)

toString(str, indent, st) ==
    IF includes(str, NL) THEN toMultilineString(str, indent, st)
    ELSE appendLast(st, jsonStringify(str))

isVector(value) == value.t \in {"list", "dict"}

isEmptyVector(value) == value.t \in {"list", "dict"} /\ value.v = <<>>

\* BARE_KEY_REGEX.test(key): /^[a-zA-Z][a-zA-Z0-9_-]*$/
bareKey(key) ==
    /\ key # <<>>
    /\ isAlpha(key[1])
    /\ \A i \in 2..Len(key) : isAlphaNum(key[i]) \/ key[i] \in {"_", "-"}

quoteKey(key) == IF bareKey(key) THEN key ELSE jsonStringify(key)

\* The order of the default collation on the characters the model's keys are
\* made of: marks, then digits, then letters, a letter's two cases together.
CollationOrder ==
    <<TAB, NL, FF, CR, " ", "_", "-", ",", ":", "?", QUOTE, "[", "]", "{", "}",
      "/", BSLASH, "#", "%", TICK, "+">> \o Digits \o Lower

toLowerCase(c) == IF InSeq(Upper, c) THEN Lower[IndexIn(Upper, c)] ELSE c

\* The primary weight of a character (0 for one the table does not hold).
primaryWeight(c) ==
    IF InSeq(CollationOrder, toLowerCase(c))
    THEN IndexIn(CollationOrder, toLowerCase(c)) ELSE 0

\* The case weight of a character: lower case first.
caseWeight(c) == IF InSeq(Upper, c) THEN 1 ELSE 0

\* The first index from i on at which the weights wa and wb differ, comparing
\* as far as the shorter goes; 0 when there is none.
RECURSIVE firstDiff(_, _, _)
firstDiff(wa, wb, i) ==
    IF i > Len(wa) \/ i > Len(wb) THEN 0
    ELSE IF wa[i] # wb[i] THEN i
    ELSE firstDiff(wa, wb, i + 1)

primaryWeights(a) == [i \in 1..Len(a) |-> primaryWeight(a[i])]
caseWeights(a) == [i \in 1..Len(a) |-> caseWeight(a[i])]

\* The sign of the difference of two weights.
compareWeight(x, y) == IF x < y THEN -1 ELSE IF x > y THEN 1 ELSE 0

\* The comparison of two strings whose weights first differ at i (primary)
\* and at j (case), 0 standing for no difference.
compareAt(a, b, i, j) ==
    IF i # 0 THEN compareWeight(primaryWeight(a[i]), primaryWeight(b[i]))
    ELSE IF Len(a) # Len(b) THEN compareWeight(Len(a), Len(b))
    ELSE IF j # 0 THEN compareWeight(caseWeight(a[j]), caseWeight(b[j]))
    ELSE 0

\* a.localeCompare(b): negative, zero or positive.  Strings are compared by
\* their primary weights first, and by case only when those are all equal.
localeCompare(a, b) ==
    compareAt(a, b, firstDiff(primaryWeights(a), primaryWeights(b), 1),
              firstDiff(caseWeights(a), caseWeights(b), 1))

\* The comparator of entries.sort in toObject.
compareKeys(a, b) == localeCompare(a, b)

\* Array.prototype.sort is stable: an entry goes after the entries that do
\* not compare greater than it.
RECURSIVE insertSorted(_, _)
insertSorted(sorted, e) ==
    IF sorted = <<>> THEN <<e>>
    ELSE IF compareKeys(sorted[Len(sorted)].k, e.k) <= 0 THEN Append(sorted, e)
    ELSE Append(insertSorted(SubSeq(sorted, 1, Len(sorted) - 1), e),
                sorted[Len(sorted)])

RECURSIVE sortEntries(_)
sortEntries(ents) ==
    IF ents = <<>> THEN <<>>
    ELSE insertSorted(sortEntries(SubSeq(ents, 1, Len(ents) - 1)), ents[Len(ents)])

RECURSIVE toValue(_, _, _, _)
RECURSIVE toArrayItems(_, _, _)
RECURSIVE toObjectEntries(_, _, _)

\* What writeKeyValuePair puts after the key.
keyIndicator(value) ==
    IF isVector(value)
    THEN IF isEmptyVector(value) THEN <<":", ":", " ">> ELSE <<":", ":">>
    ELSE <<":", " ">>

writeKeyValuePair(key, value, indent, st) ==
    toValue(value, indent + 2,
            appendLast(pushIndented(st, indent, quoteKey(key)), keyIndicator(value)),
            FALSE)

\* One round of the forEach of toArray, after its lines.push.
toArrayItem(item, itemIndent, st) ==
    IF isVector(item)
    THEN toValue(item, itemIndent + 2, appendLast(st, <<":", ":">>), FALSE)
    ELSE toValue(item, itemIndent, st, FALSE)

toArrayItems(arr, itemIndent, st) ==
    IF arr = <<>> THEN st
    ELSE toArrayItems(Tail(arr), itemIndent,
             toArrayItem(Head(arr), itemIndent,
                         pushIndented(st, itemIndent, <<"-", " ">>)))

toArray(arr, indent, st, isRootLevel) ==
    IF Len(arr) = 0 THEN appendLast(st, <<"[", "]">>)
    ELSE toArrayItems(arr, IF isRootLevel THEN 0 ELSE indent, st)

toObjectEntries(entries, keyIndent, st) ==
    IF entries = <<>> THEN st
    ELSE toObjectEntries(Tail(entries), keyIndent,
             writeKeyValuePair(Head(entries).k, Head(entries).v, keyIndent, st))

toObject(ents, indent, st, isRootLevel) ==
    IF Len(ents) = 0 THEN appendLast(st, <<"{", "}">>)
    ELSE toObjectEntries(sortEntries(ents), IF isRootLevel THEN 0 ELSE indent, st)

toValue(value, indent, st, isRootLevel) ==
    IF st.err # "" THEN st
    ELSE CASE value.t = "null" -> appendLast(st, <<"n", "u", "l", "l">>)
           [] value.t = "bool" ->
                appendLast(st, IF value.v THEN <<"t", "r", "u", "e">>
                               ELSE <<"f", "a", "l", "s", "e">>)
           [] value.t \in {"num", "nan", "inf", "float"} ->
                appendLast(st, formatNumber(value))
           [] value.t = "str" -> toString(value.v, indent, st)
           [] value.t = "list" -> toArray(value.v, indent, st, isRootLevel)
           [] value.t = "dict" -> toObject(value.v, indent, st, isRootLevel)

VERSION_HEADER == <<"%", "H", "U", "M", "L", " ", "v", "0", ".", "1", ".", "0">>

\* The end of stringify: the lines joined, or the error that was thrown.
joinLines(st) ==
    IF st.err # "" THEN [ok |-> FALSE, text |-> <<>>, ename |-> st.err]
    ELSE [ok |-> TRUE, text |-> joinNL(Append(st.lines, <<>>)), ename |-> ""]

\* stringify(obj, cfg): the text, or the error that was thrown.
stringify(value, includeVersion) ==
    joinLines(toValue(value, 0,
                      EncState(IF includeVersion THEN <<VERSION_HEADER, <<>>>> ELSE <<>>),
                      TRUE))

\* ----------------------------------------------------------------- inputs

\* The lines of a document, joined, with or without a final line break.
JoinLines(lines, nl) == joinNL(lines) \o (IF nl THEN <<NL>> ELSE <<>>)

\* A line at an indent.
Indented(n, text) == spaces(n) \o text

\* All sequences of at most n elements of S.
RECURSIVE SeqsUpTo(_, _)
SeqsUpTo(S, n) ==
    IF n = 0 THEN {<<>>}
    ELSE LET shorter == SeqsUpTo(S, n - 1)
         IN  shorter \cup {Append(sq, x) : sq \in shorter, x \in S}

\* Bounds of the inputs.
MaxFreeLines == 2
MaxTrailSpaces == 2
MaxExtraIndent == 2
MaxContentLines == 2

\* Free documents: any lines of FreeLines, in any order.
FreeLines ==
    { <<"a", ":", " ", "1">>,
      <<"a", ":", " ", "1", " ">>,
      <<"#", " ", "c">>,
      <<"#", " ", "c", " ">>,
      <<>>,
      <<" ">>,
      <<"-", " ", "1">>,
      <<" ", " ", "b", ":", " ", "2">>,
      <<"a", ":", ":">>,
      <<"a", ":", " ", "1", " ", "#", " ", "c">>,
      <<"x">>,
      <<QUOTE, "s", QUOTE>> }

FreeInputs ==
    [fam : {"free"}, lines : SeqsUpTo(FreeLines, MaxFreeLines), nl : BOOLEAN]

\* Valid documents, one line of which gets trailing spaces.
TrailBases ==
    << << <<"a", ":", " ", "1">>,
       <<>>,
       <<"#", " ", "c">>,
       <<"c", ":", " ", "2", " ", "#", " ", "d">>,
       <<"b", ":", ":", " ", "1", ",", " ", "2">> >>,
       << <<"s", ":", " ", TICK, TICK, TICK>>,
       <<" ", " ", "x">>,
       <<TICK, TICK, TICK>>,
       <<"t", ":", " ", QUOTE, QUOTE, QUOTE>>,
       <<" ", " ", "y">>,
       <<QUOTE, QUOTE, QUOTE>> >>,
       << <<"-", " ", "1">>,
       <<"-", " ", ":", ":">>,
       <<" ", " ", "k", ":", " ", "2">> >>,
       << <<"a", ":", " ", "1">>,
       <<"c", ":", " ", "2", " ", "#", " ", "d">> >> >>

TrailInputs ==
    UNION {[fam : {"trail"}, base : {b}, at : 1..Len(TrailBases[b]),
            n : 1..MaxTrailSpaces, nl : BOOLEAN] : b \in 1..Len(TrailBases)}

TrailLines(x) ==
    [i \in 1..Len(TrailBases[x.base]) |->
        IF i = x.at THEN TrailBases[x.base][i] \o spaces(x.n)
        ELSE TrailBases[x.base][i]]

\* Lines the input families are made of.
P_OPEN == <<"p", ":", ":">>
V_OPEN == <<"v", ":", ":">>
ITEM_OPEN == <<"-", " ", ":", ":">>
X_ONE == <<"x", ":", " ", "1">>
Y_TWO == <<"y", ":", " ", "2">>
ITEM_ONE == <<"-", " ", "1">>
ITEM_TWO == <<"-", " ", "2">>
LIST123 == <<"1", ",", " ", "2", ",", " ", "3">>
DICTAB == <<"a", ":", " ", "1", ",", " ", "b", ":", " ", "2">>
STRCOLON == <<QUOTE, "x", ":", "y", QUOTE, ",", " ", "2">>
B_THREE == <<"b", ":", " ", "3">>
B_LIST == <<"b", ":", ":", " ", "4", ",", " ", "5">>
COMMENT_COLON == <<"#", " ", "n", ":", " ", "m">>
TRAILING_COMMENT == <<" ", "#", " ", "c">>
Z_ONE == <<"z", ":", " ", "1">>

\* A dict in which a key may occur twice: as a multiline dict at the root or
\* under a key, as an inline dict at the root or after '::'.
DupKeys ==
    { [src |-> <<"a">>, key |-> <<"a">>],
      [src |-> <<QUOTE, "a", QUOTE>>, key |-> <<"a">>],
      [src |-> <<"b">>, key |-> <<"b">>] }

DupInputs ==
    [fam : {"dup"}, form : {"multiline", "nested", "inlineRoot", "inlineKey"},
     k1 : DupKeys, k2 : DupKeys, mid : BOOLEAN, nl : BOOLEAN]

DupLines(x) ==
    LET e1 == x.k1.src \o <<":", " ", "1">>
        e2 == x.k2.src \o <<":", " ", "2">>
        em == <<"c", ":", " ", "3">>
        sep == <<",", " ">>
        inline == e1 \o sep \o (IF x.mid THEN em \o sep ELSE <<>>) \o e2
    IN  CASE x.form = "multiline" ->
                <<e1>> \o (IF x.mid THEN <<em>> ELSE <<>>) \o <<e2>>
          [] x.form = "nested" ->
                <<P_OPEN, Indented(2, e1)>>
                \o (IF x.mid THEN <<Indented(2, em)>> ELSE <<>>)
                \o <<Indented(2, e2)>>
          [] x.form = "inlineRoot" -> <<inline>>
          [] x.form = "inlineKey" -> <<P_OPEN \o <<" ">> \o inline>>

\* The line the second of the two entries is on.
DupSecondLine(x) ==
    CASE x.form = "multiline" -> IF x.mid THEN 3 ELSE 2
      [] x.form = "nested" -> IF x.mid THEN 4 ELSE 3
      [] OTHER -> 1

\* A multiline vector opened by '::' on a line of indent k, its element
\* lines at indent k + 2 + off.
IndentInputs ==
    [fam : {"indent"}, opener : {"key", "item"}, k : {0, 2},
     elem : {"dict", "list"}, off : (0 - MaxExtraIndent)..MaxExtraIndent,
     more : BOOLEAN, nl : BOOLEAN]

IndentLines(x) ==
    LET j == x.k + 2 + x.off
        open == IF x.opener = "key" THEN V_OPEN ELSE ITEM_OPEN
        el1 == IF x.elem = "dict" THEN X_ONE ELSE ITEM_ONE
        el2 == IF x.elem = "dict" THEN Y_TWO ELSE ITEM_TWO
    IN  (IF x.k = 2 THEN <<P_OPEN>> ELSE <<>>)
        \o <<Indented(x.k, open), Indented(j, el1)>>
        \o (IF x.more THEN <<Indented(j, el2)>> ELSE <<>>)

\* An inline vector after 'v:: ': what is written, and what it is to decode to.
InlineCases ==
    << [src |-> LIST123,
        expect |-> ListV(<<NumV(1), NumV(2), NumV(3)>>)],
       [src |-> DICTAB,
        expect |-> DictV(<<Ent(<<"a">>, NumV(1)), Ent(<<"b">>, NumV(2))>>)],
       [src |-> STRCOLON,
        expect |-> ListV(<<StrV(<<"x", ":", "y">>), NumV(2)>>)],
       [src |-> <<"7">>,
        expect |-> ListV(<<NumV(7)>>)] >>

\* The lines that follow the inline vector's line.
InlineFollow ==
    << <<>>,
       <<B_THREE>>,
       <<B_LIST>>,
       <<COMMENT_COLON>> >>

InlineInputs ==
    [fam : {"inline"}, k : {0, 2}, case : 1..Len(InlineCases), comment : BOOLEAN,
     follow : 1..Len(InlineFollow), nl : BOOLEAN]

InlineLines(x) ==
    LET line == V_OPEN \o <<" ">> \o InlineCases[x.case].src
                \o (IF x.comment THEN TRAILING_COMMENT ELSE <<>>)
        rest == InlineFollow[x.follow]
    IN  (IF x.k = 2 THEN <<P_OPEN>> ELSE <<>>)
        \o <<Indented(x.k, line)>>
        \o [i \in 1..Len(rest) |-> Indented(x.k, rest[i])]

\* A multiline string opened on a line of indent k, at a dict value or a list
\* item, with its closing delimiter at indent close (-1: there is none).
MStrInputs ==
    [fam : {"mstr"}, preserve : BOOLEAN, at : {"dict", "list"}, k : {0, 2},
     content : 0..MaxContentLines, close : -1..(2 + MaxExtraIndent),
     trailer : BOOLEAN, nl : BOOLEAN]

MStrLines(x) ==
    LET delim == IF x.preserve THEN TripleTick ELSE TripleQuote
        open == (IF x.at = "dict" THEN <<"s", ":", " ">> ELSE <<"-", " ">>) \o delim
        trailer == IF x.at = "dict" THEN Z_ONE ELSE ITEM_ONE
    IN  (IF x.k = 2 THEN <<P_OPEN>> ELSE <<>>)
        \o <<Indented(x.k, open)>>
        \o [i \in 1..x.content |-> Indented(x.k + 2, <<"x">>)]
        \o (IF x.close >= 0 THEN <<Indented(x.close, delim)>> ELSE <<>>)
        \o (IF x.trailer THEN <<Indented(x.k, trailer)>> ELSE <<>>)

\* A base-prefixed integer literal, as a dict value or a list item: a sign, a
\* prefix of NUMBER_BASE_PREFIXES, and digits of that base with '_' between.
NumDigits ==
    { <<>>, <<"1">>, <<"1", "0">>, <<"1", "0", "1">>, <<"1", "7">>, <<"F", "F">>,
      <<"f", "_", "0">>, <<"1", "_", "0">>, <<"F", "F", "_", "F", "F">> }

\* The digits are digits of the base, and no '_' is first or last.
RECURSIVE DigitsOfBase(_, _)
DigitsOfBase(ds, base) ==
    \/ ds = <<>>
    \/ /\ Head(ds) = "_" \/ (isHex(Head(ds)) /\ DigitVal(Head(ds)) < base)
       /\ DigitsOfBase(Tail(ds), base)

NumInputs ==
    { x \in [fam : {"num"}, sign : {<<>>, <<"+">>, <<"-">>},
             pre : 1..Len(NUMBER_BASE_PREFIXES), digits : NumDigits,
             at : {"dict", "list"}, nl : BOOLEAN] :
        DigitsOfBase(x.digits, NUMBER_BASE_PREFIXES[x.pre].base) }

NumLines(x) ==
    << (IF x.at = "dict" THEN <<"n", ":", " ">> ELSE <<"-", " ">>)
       \o x.sign \o NUMBER_BASE_PREFIXES[x.pre].prefix \o x.digits >>

\* A quoted string holding one \u escape: the four characters after the 'u'
\* are hexadecimal digits, another letter, the quote or a newline.
UEscChars == {"0", "4", "g", QUOTE, NL}

UEscInputs == [fam : {"uesc"}, c : [1..4 -> UEscChars], nl : BOOLEAN]

UEscLines(x) ==
    << <<"s", ":", " ", QUOTE, BSLASH, "u", x.c[1], x.c[2], x.c[3], x.c[4], QUOTE>> >>

\* A dict one entry of which has an unquoted key made of letters, digits, '-'
\* and '_': first or second entry, in each of the four forms of a dict.
UnquotedKeys ==
    { <<"a">>, <<"a", "1">>, <<"a", "-", "b">>, <<"a", "_">>, <<"Z", "9">>,
      <<"1", "a">>, <<"9">>, <<"-", "a">>, <<"_", "a">>, <<"_">> }

KeyInputs ==
    [fam : {"key"}, form : {"multiline", "nested", "inlineRoot", "inlineKey"},
     key : UnquotedKeys, second : BOOLEAN, nl : BOOLEAN]

KeyEntries(x) ==
    IF x.second THEN <<B_THREE, x.key \o <<":", " ", "1">>>>
    ELSE <<x.key \o <<":", " ", "1">>, B_THREE>>

KeyLines(x) ==
    CASE x.form = "multiline" -> KeyEntries(x)
      [] x.form = "nested" ->
            <<P_OPEN, Indented(2, KeyEntries(x)[1]), Indented(2, KeyEntries(x)[2])>>
      [] x.form = "inlineRoot" ->
            <<KeyEntries(x)[1] \o <<",", " ">> \o KeyEntries(x)[2]>>
      [] x.form = "inlineKey" ->
            <<P_OPEN \o <<" ">> \o KeyEntries(x)[1] \o <<",", " ">> \o KeyEntries(x)[2]>>

\* Documents with one comment marker: after a value and k spaces, or on a
\* line of its own after k spaces; after is what follows the '#'.  The
\* line with the marker is the last one or has the entry b after it.
MaxCommentSpaces == 3

CmtValues == { <<"1">>, <<QUOTE, "x", QUOTE>>, <<"t", "r", "u", "e">> }

CmtAfters == { <<>>, <<" ", "c">>, <<"c">>, <<"#">> }

CmtInputs ==
    [fam : {"cmt"}, form : {"inline", "line"}, val : CmtValues,
     k : 0..MaxCommentSpaces, after : CmtAfters, last : BOOLEAN, nl : BOOLEAN]

CmtMarker(x) == spaces(x.k) \o <<"#">> \o x.after

CmtHead(x) ==
    IF x.form = "inline"
    THEN << <<"a", ":", " ">> \o x.val \o CmtMarker(x) >>
    ELSE << <<"a", ":", " ">> \o x.val, CmtMarker(x) >>

CmtLines(x) ==
    IF x.last THEN CmtHead(x) ELSE Append(CmtHead(x), <<"b", ":", " ", "2">>)

\* Documents in which every key occurs once in its dict: one entry with the
\* key, bare or quoted, alone or before or after the entry c, in a multiline
\* dict at the root or after 'p::'.
OnceKeys ==
    { <<"c", "o", "n", "s", "t", "r", "u", "c", "t", "o", "r">>,
      <<"t", "o", "S", "t", "r", "i", "n", "g">>,
      <<"v", "a", "l", "u", "e", "O", "f">>,
      <<"h", "a", "s", "O", "w", "n", "P", "r", "o", "p", "e", "r", "t", "y">>,
      <<"a">>,
      <<"k", "e", "y">>,
      <<"t", "o">> }

OnceInputs ==
    [fam : {"once"}, form : {"multiline", "nested"}, key : OnceKeys,
     quoted : BOOLEAN, place : {"only", "first", "second"}, nl : BOOLEAN]

OnceEntry(x) ==
    (IF x.quoted THEN <<QUOTE>> \o x.key \o <<QUOTE>> ELSE x.key) \o <<":", " ", "1">>

OnceEntries(x) ==
    CASE x.place = "only" -> <<OnceEntry(x)>>
      [] x.place = "first" -> <<OnceEntry(x), <<"c", ":", " ", "3">>>>
      [] x.place = "second" -> <<<<"c", ":", " ", "3">>, OnceEntry(x)>>

OnceLines(x) ==
    IF x.form = "multiline" THEN OnceEntries(x)
    ELSE <<P_OPEN>> \o [i \in 1..Len(OnceEntries(x)) |-> Indented(2, OnceEntries(x)[i])]

\* Documents with the cursor anywhere in them, for the lookahead predicates.
MaxLookLines == 2

LookLines ==
    { <<"a", ":", " ", "1">>,
      <<QUOTE, "k", QUOTE, ":", " ", "1", ",", " ", "b", ":", " ", "2">>,
      <<QUOTE, "s">>,
      <<"1", ",", " ", "2", " ", "#", " ", "c">>,
      <<"k", ":", ":", " ", "x">>,
      <<" ", " ", "b", "-", "c", ":", " ", QUOTE, "q", QUOTE>> }

LookInputs ==
    UNION { [fam : {"look"}, lines : {ls}, nl : BOOLEAN, p : 0..(Len(joinNL(ls)) + 1)] :
            ls \in SeqsUpTo(LookLines, MaxLookLines) }

\* Documents with the cursor anywhere in them, for the rounds of the loops.
MaxLoopLines == 2

LoopLines ==
    { <<>>,
      <<"#", " ", "c">>,
      <<"a", ":", " ", "1">>,
      <<"-", " ", "1">>,
      <<"1", ",", " ", "2">>,
      <<"k", ":", " ", "1", " ", ",", "b", ":", " ", "2">>,
      <<" ", " ", "x", ":", ":", " ", "3">>,
      <<QUOTE, QUOTE, QUOTE>> }

LoopInputs ==
    UNION { [fam : {"loop"}, lines : {ls}, nl : BOOLEAN, p : 0..Len(joinNL(ls))] :
            ls \in SeqsUpTo(LoopLines, MaxLoopLines) }

\* Documents for a round trip: any lines of RoundTripLines, in any order.
MaxDocLines == 2

RoundTripLines ==
    { <<QUOTE, "x", QUOTE>>,
      <<"[", "]">>,
      <<"a", ":", " ", QUOTE, "x", BSLASH, "n", "y", QUOTE>>,
      <<"b", ":", " ", QUOTE, "x", BSLASH, "n", QUOTE>>,
      <<"-", " ", QUOTE, "x", BSLASH, "n", "y", QUOTE>>,
      <<"-", " ", ":", ":", " ", "[", "]">>,
      <<"a", ":", " ", "1">>,
      <<"B", ":", " ", "2">>,
      <<"k", ":", ":">>,
      <<" ", " ", "-", " ", "1">>,
      <<" ", " ", "a", ":", " ", "1">> }

RoundTripInputs ==
    [fam : {"rtdoc"}, lines : SeqsUpTo(RoundTripLines, MaxDocLines), nl : BOOLEAN]

\* The lines of an input's document.
DocLines(x) ==
    CASE x.fam \in {"free", "rtdoc", "look", "loop"} -> x.lines
      [] x.fam = "trail" -> TrailLines(x)
      [] x.fam = "dup" -> DupLines(x)
      [] x.fam = "indent" -> IndentLines(x)
      [] x.fam = "inline" -> InlineLines(x)
      [] x.fam = "mstr" -> MStrLines(x)
      [] x.fam = "num" -> NumLines(x)
      [] x.fam = "uesc" -> UEscLines(x)
      [] x.fam = "key" -> KeyLines(x)
      [] x.fam = "cmt" -> CmtLines(x)
      [] x.fam = "once" -> OnceLines(x)

Doc(x) == JoinLines(DocLines(x), x.nl)

\* Values handed to stringify directly.
MaxLen == 2
MaxDepth == 1

ScalarValues ==
    { BoolV(TRUE), NumV(5), StrV(<<"x">>), StrV(<<"a", NL, "b">>), StrV(<<"a", NL>>) }

ValueKeys == {<<"a">>, <<"B">>}

\* The sequences of 1..n distinct keys.
KeySeqs(n) ==
    {ks \in SeqsUpTo(ValueKeys, n) :
        ks # <<>> /\ \A i, j \in 1..Len(ks) : i # j => ks[i] # ks[j]}

\* Scalars, empty collections, and lists and dicts of at most MaxLen of them.
FlatValues ==
    LET atoms == ScalarValues \cup {ListV(<<>>), DictV(<<>>)}
    IN  atoms
        \cup {ListV(items) : items \in SeqsUpTo(atoms, MaxLen) \ {<<>>}}
        \cup UNION {{DictV([i \in 1..Len(ks) |-> Ent(ks[i], vs[i])]) :
                        vs \in [1..Len(ks) -> atoms]} : ks \in KeySeqs(MaxLen)}

\* The values of FlatValues, put into a list or under a key up to n times.
RECURSIVE NestedValues(_)
NestedValues(n) ==
    IF n = 0 THEN FlatValues
    ELSE LET sub == NestedValues(n - 1)
         IN  sub \cup {ListV(<<v>>) : v \in sub}
                 \cup {DictV(<<Ent(<<"a">>, v)>>) : v \in sub}

\* ver: stringify is given the option includeVersion.
ValueInputs == [fam : {"value"}, val : NestedValues(MaxDepth), ver : BOOLEAN]

\* ------------------------------------------------------- the state machine

NoResult == [ok |-> FALSE, pos |-> 0, line |-> 0, val |-> NullV, msg |-> "none",
             ename |-> "none"]
NoText == [ok |-> FALSE, text |-> <<>>, ename |-> "none"]
NoFirst == [val |-> NullV, enc |-> NoText]

\* A document is about to be parsed.
InitDoc(inputs) ==
    /\ inp \in inputs
    /\ data = Doc(inp)
    /\ pc = "input"
    /\ res = NoResult
    /\ obj = NullV
    /\ enc = NoText
    /\ first = NoFirst

\* A value is about to be encoded.
InitValue(inputs) ==
    /\ inp \in inputs
    /\ obj = inp.val
    /\ pc = "value"
    /\ data = <<>>
    /\ res = NoResult
    /\ enc = NoText
    /\ first = NoFirst

\* parse(data): of a document given as it is, or of a text stringify returned.
Parse ==
    /\ pc \in {"input", "encoded"}
    /\ pc = "encoded" => enc.ok
    /\ res' = parse(data)
    /\ pc' = IF pc = "input" THEN "parsed" ELSE "reparsed"
    /\ UNCHANGED <<inp, data, obj, enc, first>>

\* cfg && cfg.includeVersion
includeVersion(x) == x.fam = "value" /\ x.ver

\* stringify(obj): of a value given as it is, or of a value parse returned.
\* The text is kept as the next data; first keeps the first call's value and text.
Stringify ==
    /\ pc \in {"value", "parsed", "reparsed"}
    /\ pc # "value" => res.ok
    /\ obj' = IF pc = "value" THEN obj ELSE res.val
    /\ enc' = stringify(obj', includeVersion(inp))
    /\ data' = IF enc'.ok THEN enc'.text ELSE data
    /\ first' = IF pc = "reparsed" THEN first ELSE [val |-> obj', enc |-> enc']
    /\ pc' = IF pc = "reparsed" THEN "reencoded" ELSE "encoded"
    /\ UNCHANGED <<inp, res>>

\* The cursor of an input of the look family, and the line it is on.
lookPos(x) == IF x.p > Len(Doc(x)) THEN Len(Doc(x)) ELSE x.p
lookLine(x) == 1 + NewlinesBefore(Doc(x), lookPos(x))

\* One call of a lookahead predicate, the cursor being anywhere; res keeps
\* the answer and the cursor after the call.
HasKeyValuePair ==
    /\ pc = "input" /\ inp.fam = "look"
    /\ res' = keyValuePairCall(data, lookPos(inp),
                               parseKey(data, lookPos(inp), lookLine(inp)))
    /\ pc' = "looked"
    /\ UNCHANGED <<inp, data, obj, enc, first>>

HasInlineDict ==
    /\ pc = "input" /\ inp.fam = "look"
    /\ res' = inlineDictCall(data, lookPos(inp), lookLine(inp))
    /\ pc' = "looked"
    /\ UNCHANGED <<inp, data, obj, enc, first>>

HasInlineListAtRoot ==
    /\ pc = "input" /\ inp.fam = "look"
    /\ res' = inlineListAtRootCall(data, lookPos(inp), lookLine(inp))
    /\ pc' = "looked"
    /\ UNCHANGED <<inp, data, obj, enc, first>>

HasInlineDictAtRoot ==
    /\ pc = "input" /\ inp.fam = "look"
    /\ res' = inlineDictAtRootCall(data, lookPos(inp), lookLine(inp))
    /\ pc' = "looked"
    /\ UNCHANGED <<inp, data, obj, enc, first>>

\* The lookahead predicates alone.
InitLookahead == InitDoc(LookInputs)

NextLookahead ==
    HasKeyValuePair \/ HasInlineDict \/ HasInlineListAtRoot \/ HasInlineDictAtRoot

SpecLookahead == InitLookahead /\ [][NextLookahead]_vars

\* The cursor a loop's next round begins at: the one the input chose for the
\* first round, then the one the round before left.
loopPos == IF pc = "input" THEN inp.p ELSE res.pos
loopLine == IF pc = "input" THEN 1 + NewlinesBefore(data, inp.p) ELSE res.line

\* The loop called name with arg goes round: it is entered now, or it has gone
\* round before.
InLoop(name, arg) ==
    /\ inp.fam = "loop"
    /\ pc = "input" \/ (pc = "looping" /\ res.msg = name /\ res.arg = arg)

Rounded(r) ==
    /\ res' = r
    /\ pc' = IF r.again THEN "looping" ELSE "left"
    /\ UNCHANGED <<inp, data, obj, enc, first>>

SkipBlankLinesRound ==
    /\ InLoop("skipBlankLines", 0)
    /\ Rounded(skipBlankLinesRound(data, loopPos, skipSpaces(data, loopPos), loopLine))

ParseMultilineStringRound ==
    \E delim \in {TripleTick, TripleQuote} :
        /\ InLoop("parseMultilineString", delim)
        /\ Rounded(multilineStringLoopRound(data, loopPos, skipSpaces(data, loopPos),
                                            loopLine, delim))

ParseMultilineDictRound ==
    \E indent \in {0, 2} :
        /\ InLoop("parseMultilineDict", indent)
        /\ Rounded(parseMultilineDictRound(data, loopPos, indent,
                                           IF pc = "input" THEN <<>> ELSE res.val,
                                           skipBlankLines(data, loopPos, loopLine)))

ParseMultilineListRound ==
    \E indent \in {0, 2} :
        /\ InLoop("parseMultilineList", indent)
        /\ Rounded(parseMultilineListRound(data, loopPos, indent,
                                           skipBlankLines(data, loopPos, loopLine)))

ParseInlineVectorContentsRound ==
    \E type \in {TYPES.INLINE_DICT, TYPES.INLINE_LIST} :
        /\ InLoop("parseInlineVectorContents", type)
        /\ Rounded(parseInlineRound(data, loopPos, loopLine, type, pc = "input"))

\* The loops alone, each from any cursor; a loop goes round until it is left.
InitLoops == InitDoc(LoopInputs)

NextLoops ==
    \/ SkipBlankLinesRound
    \/ ParseMultilineStringRound
    \/ ParseMultilineDictRound
    \/ ParseMultilineListRound
    \/ ParseInlineVectorContentsRound

SpecLoops == InitLoops /\ [][NextLoops]_vars

\* The decoder alone, on the documents of every family.
InitDecode ==
    \/ InitDoc(FreeInputs)
    \/ InitDoc(TrailInputs)
    \/ InitDoc(DupInputs)
    \/ InitDoc(IndentInputs)
    \/ InitDoc(InlineInputs)
    \/ InitDoc(MStrInputs)
    \/ InitDoc(NumInputs)
    \/ InitDoc(UEscInputs)
    \/ InitDoc(KeyInputs)
    \/ InitDoc(CmtInputs)
    \/ InitDoc(OnceInputs)

NextDecode == Parse

SpecDecode == InitDecode /\ [][NextDecode]_vars

\* Decode, encode, decode again, encode again.
InitRoundTrip == InitDoc(RoundTripInputs) \/ InitValue(ValueInputs)

NextRoundTrip == Parse \/ Stringify

SpecRoundTrip == InitRoundTrip /\ [][NextRoundTrip]_vars

\* ---------------------------------------------------------------- claims

\* Deep equality of two values; an object's properties compare by key, in
\* whatever order they were inserted.
RECURSIVE DeepEqual(_, _)
DeepEqual(a, b) ==
    /\ a.t = b.t
    /\ CASE a.t = "list" ->
                /\ Len(a.v) = Len(b.v)
                /\ \A i \in 1..Len(a.v) : DeepEqual(a.v[i], b.v[i])
         [] a.t = "dict" ->
                /\ Len(a.v) = Len(b.v)
                /\ \A i \in 1..Len(a.v) : \E j \in 1..Len(b.v) :
                       b.v[j].k = a.v[i].k /\ DeepEqual(a.v[i].v, b.v[j].v)
         [] OTHER -> a.v = b.v

\* The number of lines of a text: one more than its line breaks.
LineCount(text) == Len(splitNL(text))

\* The UTF-16 code unit of a character a bare key is made of.
charCode(c) ==
    CASE InSeq(Digits, c) -> 47 + IndexIn(Digits, c)
      [] InSeq(Upper, c) -> 64 + IndexIn(Upper, c)
      [] InSeq(Lower, c) -> 96 + IndexIn(Lower, c)
      [] c = "-" -> 45
      [] c = "_" -> 95

\* a is before b in lexicographic order of code units.
RECURSIVE LexLess(_, _)
LexLess(a, b) ==
    IF a = <<>> THEN b # <<>>
    ELSE IF b = <<>> THEN FALSE
    ELSE IF a[1] = b[1] THEN LexLess(Tail(a), Tail(b))
    ELSE charCode(a[1]) < charCode(b[1])

\* The lines of a text that start a root-level entry with a bare key.
IsKeyLine(line) == line # <<>> /\ isAlpha(line[1])
\* The bare keys of a text's root-level entries, in the order of their lines.
RootKeysOf(keyLines) ==
    [i \in 1..Len(keyLines) |-> substring(keyLines[i], 0, indexOf(keyLines[i], ":", 0))]
EmittedRootKeys(text) == RootKeysOf(SelectSeq(splitNL(text), IsKeyLine))

\* The dict holding the entries of dict value v in the order f puts them in.
Reordered(v, f) == DictV([i \in 1..Len(v.v) |-> v.v[f[i]]])

\* The value a decoded dict holds under a key, the dict under "p" first when
\* nested.
HasOwn(val, key) == val.t = "dict" /\ \E i \in 1..Len(val.v) : val.v[i].k = key
GetOwn(val, key) == val.v[CHOOSE i \in 1..Len(val.v) : val.v[i].k = key].v

\* C1: parse(stringify(v)) succeeds and returns a tree deep-equal to v, for
\* every value v parse can return: root scalars, empty collections at the root
\* and as list items, strings that contain or end in a newline included.
C1_RoundTripIdentity ==
    /\ pc = "encoded" => enc.ok
    /\ pc = "reparsed" => res.ok /\ DeepEqual(res.val, first.val)

\* C2: stringify(parse(stringify(v))) is stringify(v), byte for byte.
C2_CanonicalFixedPoint ==
    pc = "reencoded" => enc.ok /\ enc.text = first.enc.text

\* C3: for every value, stringify returns normally and parse of the text it
\* returned raises no error.
C3_EncodeAlwaysDecodes ==
    /\ pc = "encoded" => enc.ok
    /\ pc = "reparsed" => res.ok

\* C4: a document one line of which ends in spaces (a blank line, a comment
\* line, a content line, a line inside a multiline string block, the last line
\* without a newline) fails to parse, and the error's line is that line.
C4_TrailingWhitespaceRejected ==
    pc = "parsed" /\ inp.fam = "trail" => ~res.ok /\ res.line = inp.at

\* C5: a key that occurs twice in one dict, multiline or inline, at the root or
\* after '::', fails with the duplicate-key error at the line of the second
\* occurrence; the first value is never overwritten.
C5_DuplicateKeyRejected ==
    pc = "parsed" /\ inp.fam = "dup" /\ inp.k1.key = inp.k2.key =>
        /\ ~res.ok
        /\ res.msg = "duplicate key in dict"
        /\ res.line = DupSecondLine(inp)

\* C6: after '::' and a newline on a line of indent k, element lines at indent
\* k + 2 are accepted and element lines at any other indent deeper than k
\* (k + 1, k + 3, k + 4, ...) fail with the bad-indent error.
C6_VectorIndentExact ==
    pc = "parsed" /\ inp.fam = "indent" /\ inp.off > -2 =>
        IF inp.off = 0 THEN res.ok
        ELSE ~res.ok /\ res.msg = "bad indent"

\* The value decoded for the inline vector of an input of the inline family.
InlineDecoded(x, val) ==
    IF x.k = 0 THEN GetOwn(val, <<"v">>) ELSE GetOwn(GetOwn(val, <<"p">>), <<"v">>)
InlineHasDecoded(x, val) ==
    IF x.k = 0 THEN HasOwn(val, <<"v">>)
    ELSE HasOwn(val, <<"p">>) /\ HasOwn(GetOwn(val, <<"p">>), <<"v">>)

\* C7: an inline vector after 'key:: ' is classified by the rest of its own
\* line alone, a dict exactly when that has an un-doubled ':' outside quoted
\* strings, so it decodes to the same vector whatever lines follow it.
C7_InlineClassifiedByOwnLine ==
    pc = "parsed" /\ inp.fam = "inline" =>
        /\ res.ok
        /\ InlineHasDecoded(inp, res.val)
        /\ InlineDecoded(inp, res.val) = InlineCases[inp.case].expect

\* C8: every parse that fails, of the empty string and of blank-only and
\* comment-only documents too, throws an error named 'HUMLError' whose line is
\* an integer from 1 to the number of lines of the input.
C8_ErrorsArePositioned ==
    pc = "parsed" /\ ~res.ok =>
        /\ res.ename = "HUMLError"
        /\ res.line \in 1..LineCount(data)

\* The line the closing delimiter of an input of the mstr family is on.
MStrClosingLine(x) == (IF x.k = 2 THEN 1 ELSE 0) + 1 + x.content + 1

\* C9: for both multiline string forms, at a dict value and at a list item, a
\* closing delimiter at another indent than the opening line's makes parse
\* fail, at the closing line, and a block with no closing delimiter before the
\* end of input fails as unterminated.
C9_ClosingDelimiterAtKeyIndent ==
    pc = "parsed" /\ inp.fam = "mstr" =>
        /\ inp.close = -1 =>
               ~res.ok /\ res.msg = "unclosed multiline string"
        /\ inp.close >= 0 /\ inp.close # inp.k =>
               /\ ~res.ok
               /\ res.msg = "multiline closing delimiter must be at same indentation as the key"
               /\ res.line = MStrClosingLine(inp)

\* A list item's block of two content lines, closed one level too deep, has
\* been refused.
C9_Witness ==
    /\ pc = "parsed" /\ inp.fam = "mstr"
    /\ inp.at = "list" /\ inp.k = 2 /\ inp.content = 2 /\ inp.close = 4
    /\ ~res.ok /\ res.line = 5

\* C10: a dict's keys are emitted in ascending lexicographic order, so that
\* dicts of the same entries inserted in different orders encode to the same
\* text.
C10_KeysSortedLexicographically ==
    pc = "encoded" /\ enc.ok /\ obj.t = "dict" =>
        /\ \A i \in 1..(Len(EmittedRootKeys(enc.text)) - 1) :
               LexLess(EmittedRootKeys(enc.text)[i], EmittedRootKeys(enc.text)[i + 1])
        /\ \A f \in Permutations(1..Len(obj.v)) :
               stringify(Reordered(obj, f), includeVersion(inp)) = enc

\* The digits without their underscores, read in the base.
RECURSIVE ReadInBase(_, _, _)
ReadInBase(ds, base, acc) ==
    IF ds = <<>> THEN acc
    ELSE IF Head(ds) = "_" THEN ReadInBase(Tail(ds), base, acc)
    ELSE ReadInBase(Tail(ds), base, acc * base + DigitVal(Head(ds)))

\* The value decoded for the literal of an input of the num family.
NumHasDecoded(x, val) ==
    IF x.at = "dict" THEN HasOwn(val, <<"n">>) ELSE val.t = "list" /\ Len(val.v) = 1
NumDecoded(x, val) == IF x.at = "dict" THEN GetOwn(val, <<"n">>) ELSE val.v[1]

\* C11: a literal [sign] ('0x' | '0o' | '0b') digits, '_' separators allowed
\* among the digits, decodes to sign times the digits without underscores read
\* in base 16, 8 or 2; a prefix with no digit after it fails.
C11_BasePrefixedLiterals ==
    pc = "parsed" /\ inp.fam = "num" =>
        IF inp.digits = <<>> THEN ~res.ok
        ELSE /\ res.ok
             /\ NumHasDecoded(inp, res.val)
             /\ NumDecoded(inp, res.val) =
                    NumV((IF inp.sign = <<"-">> THEN -1 ELSE 1)
                         * ReadInBase(inp.digits, NUMBER_BASE_PREFIXES[inp.pre].base, 0))

\* A text ends with another.
EndsWith(text, tail) ==
    Len(text) >= Len(tail)
    /\ SubSeq(text, Len(text) - Len(tail) + 1, Len(text)) = tail

\* The root values whose text is one token, and that token.
IsToken(v) ==
    \/ v.t \in {"bool", "num"}
    \/ v.t = "str" /\ ~includes(v.v, NL)
    \/ v.t \in {"list", "dict"} /\ v.v = <<>>
TokenOf(v) ==
    CASE v.t = "bool" -> IF v.v THEN <<"t", "r", "u", "e">> ELSE <<"f", "a", "l", "s", "e">>
      [] v.t = "num" -> <<Digits[v.v + 1]>>
      [] v.t = "str" -> <<QUOTE>> \o v.v \o <<QUOTE>>
      [] v.t = "list" -> <<"[", "]">>
      [] v.t = "dict" -> <<"{", "}">>

\* C12: stringify of a root value that is a scalar or an empty collection
\* returns the value's text followed by a newline, after the version header
\* when includeVersion is given and alone when it is not.
C12_RootScalarEmitted ==
    pc = "encoded" /\ inp.fam = "value" /\ IsToken(obj) =>
        /\ enc.ok
        /\ EndsWith(enc.text, TokenOf(obj) \o <<NL>>)
        /\ ~inp.ver => enc.text = TokenOf(obj) \o <<NL>>

\* C13: where a parse ends, with a value or with a positioned error, the line
\* counter is 1 plus the number of newlines of the input before the offset.
C13_LineCountsNewlines ==
    pc = "parsed" /\ res.ename # "Error" =>
        res.line = 1 + NewlinesBefore(data, res.pos)

\* The four characters after the 'u' of an input of the uesc family.
UEscHex(x) == <<x.c[1], x.c[2], x.c[3], x.c[4]>>
AllHex(cs) == \A i \in 1..Len(cs) : isHex(cs[i])

\* C17: in a single-line quoted string a \u escape is accepted only when the
\* next four characters are all hexadecimal digits, and then yields the code
\* unit of that value; any other four characters, the closing quote or a
\* literal newline among them, make parse fail.
C17_UnicodeEscapeFourHex ==
    pc = "parsed" /\ inp.fam = "uesc" =>
        IF AllHex(UEscHex(inp))
        THEN /\ res.ok
             /\ HasOwn(res.val, <<"s">>)
             /\ GetOwn(res.val, <<"s">>) =
                    StrV(<<fromCharCode(ReadInBase(UEscHex(inp), 16, 0))>>)
        ELSE ~res.ok

\* A line that holds no content: spaces only, or a comment.
IsBlankOrComment(line) ==
    skipSpaces(line, 0) = Len(line) \/ At(line, skipSpaces(line, 0)) = "#"

\* The lines of the input from the offset on.
LinesFrom(text, pos) == splitNL(substring(text, pos, Len(text)))

\* C14: parse returns a value only after consuming the whole document: no
\* line with content is left after the offset the parse ended at.  A root
\* multiline list followed by a line at indent 0 that is no item fails.
C14_RootConsumesDocument ==
    pc = "parsed" /\ res.ok =>
        \A i \in 1..Len(LinesFrom(data, res.pos)) :
            IsBlankOrComment(LinesFrom(data, res.pos)[i])

\* The text of the block of an input of the mstr family: its content lines,
\* each 'x', joined by newlines.
MStrText(x) == joinNL([i \in 1..x.content |-> <<"x">>])

\* The list an input of the mstr family holds when its block is a list item
\* and an item follows it.
MStrListDecoded(x, val) == IF x.k = 0 THEN val ELSE GetOwn(val, <<"p">>)
MStrListHasDecoded(x, val) == x.k = 0 \/ HasOwn(val, <<"p">>)

\* C15: a list item that is a multiline string block closed at the item's
\* indent, with a sibling item on the line after the closing delimiter,
\* decodes to the list of both items.
C15_ListBlockThenSibling ==
    pc = "parsed" /\ inp.fam = "mstr" /\ inp.at = "list" /\ inp.close = inp.k
                  /\ inp.trailer =>
        /\ res.ok
        /\ MStrListHasDecoded(inp, res.val)
        /\ MStrListDecoded(inp, res.val) = ListV(<<StrV(MStrText(inp)), NumV(1)>>)

\* The key matches [A-Za-z][A-Za-z0-9_-]*.
MatchesBareKey(key) ==
    /\ key # <<>>
    /\ isAlpha(key[1])
    /\ \A i \in 2..Len(key) : isAlphaNum(key[i]) \/ key[i] \in {"_", "-"}

\* The dict of an input of the key family: the root, or the dict under "p".
KeyDict(x, val) ==
    IF x.form \in {"multiline", "inlineRoot"} THEN val
    ELSE IF HasOwn(val, <<"p">>) THEN GetOwn(val, <<"p">>) ELSE NullV

\* C16: an unquoted key is accepted exactly when it matches
\* [A-Za-z][A-Za-z0-9_-]*, in a multiline dict and in an inline dict, at the
\* root and after '::'; one that starts with a digit, '-' or '_' makes parse
\* fail and is no key of a result.
C16_BareKeysStartWithLetter ==
    pc = "parsed" /\ inp.fam = "key" =>
        IF MatchesBareKey(inp.key)
        THEN /\ res.ok
             /\ HasOwn(KeyDict(inp, res.val), inp.key)
             /\ GetOwn(KeyDict(inp, res.val), inp.key) = NumV(1)
        ELSE ~res.ok

\* C18: the lookahead predicates are non-destructive: after a call of
\* hasKeyValuePair, hasInlineDict, hasInlineListAtRoot or hasInlineDictAtRoot,
\* whatever it answered and whether or not its trial parse of a key failed,
\* the offset and the line counter are what they were before the call.
C18_LookaheadRestoresCursor ==
    pc = "looked" =>
        /\ res.pos = lookPos(inp)
        /\ res.line = lookLine(inp)

\* hasKeyValuePair has answered true from an offset inside the document:
\* parseKey had moved the cursor over a key.
C18_Witness ==
    /\ pc = "looked" /\ res.msg = "hasKeyValuePair"
    /\ res.val = BoolV(TRUE) /\ lookPos(inp) > 0
    /\ res.pos = lookPos(inp)

\* C19: parse terminates on every finite input: every round of the loops of
\* parseMultilineDict, parseMultilineList, parseInlineVectorContents,
\* parseMultilineString and skipBlankLines that does not leave the loop ends
\* with the offset strictly after the one it began with and not beyond the
\* end of the document, so that no loop goes round more often than the
\* document has characters.
C19_LoopsAdvanceOrLeave ==
    pc = "looping" => res.pos > res.from /\ res.pos <= Len(data)

\* The loop of parseMultilineDict has gone round a second time.
C19_Witness ==
    /\ pc = "looping" /\ res.msg = "parseMultilineDict"
    /\ res.from > inp.p /\ res.pos > res.from

\* The messages of the two comment-format errors of consumeLine.
CommentFormatMessages ==
    { "a value must be separated from an inline comment by a space",
      "comment hash '#' must be followed by a space" }

\* The marker of x stands where a comment may start: at column 0 of a line of
\* its own, or one space after the value; and a space, a newline or the end of
\* the input follows it.
CmtWellPlaced(x) ==
    /\ x.k = (IF x.form = "inline" THEN 1 ELSE 0)
    /\ x.after = <<>> \/ x.after[1] = " "

\* C20: a '#' comment marker is accepted only at column 0 of a pure comment
\* line or exactly one space after content, and only when a space or a newline
\* follows it; with the marker anywhere else (directly after the value, two or
\* more spaces after it, another character after the '#') parse fails with a
\* comment-format error.
C20_CommentMarkerPlacement ==
    pc = "parsed" /\ inp.fam = "cmt" /\ ~CmtWellPlaced(inp) =>
        ~res.ok /\ res.msg \in CommentFormatMessages

\* The dict the entries of a document of the once family are decoded into.
OnceDict(x, val) ==
    IF x.form = "multiline" THEN val
    ELSE IF HasOwn(val, <<"p">>) THEN GetOwn(val, <<"p">>) ELSE NullV

\* C21: parseMultilineDict reports a duplicate key only for a key stored
\* earlier in the same dict: a document in which each key occurs once per
\* dict is not rejected as a duplicate, whatever the key's text ('constructor',
\* 'toString', 'valueOf' included); it is accepted and the key is in the
\* result with its value.
C21_DuplicateOnlyWhenStored ==
    pc = "parsed" /\ inp.fam = "once" =>
        /\ res.msg # "duplicate key in dict"
        /\ res.ok
        /\ HasOwn(OnceDict(inp, res.val), inp.key)
        /\ GetOwn(OnceDict(inp, res.val), inp.key) = NumV(1)

====
